---- MODULE Spec2Model ----
(***************************************************************************)
(* A model of the strohs/raytracer path tracer.                            *)
(*                                                                         *)
(*   Spec      Renderer::render: the main thread, the thread pool's job    *)
(*             queue, the worker threads and the results channel.          *)
(*   FairSpec  Spec with the fairness the OS scheduler gives the threads.  *)
(*   SpecTwice Spec followed by a second render of the same job.           *)
(*   SpecRay   Renderer::ray_color and the materials' scatter.             *)
(*   SpecBvh   BvhNode construction and BvhNode::hit / HittableList::hit   *)
(*             over concrete primitives.                                   *)
(*                                                                         *)
(* Lengths and ray parameters are integers in units of 0.00001: the        *)
(* renderer's t_min and the rectangles' bounding box padding are 100.      *)
(***************************************************************************)
EXTENDS Integers, Sequences, FiniteSets, TLC

VARIABLES
    \* ---- Renderer::render ------------------------------------------------
    pcMain,      \* position of the main thread inside render
    nextRow,     \* the `row` counter of the submission loop
    jobs,        \* the thread pool's FIFO job queue (row of each queued closure)
    senders,     \* number of live Sender handles of the results channel
    chan,        \* the results channel: messages sent and not yet received
    image,       \* the image vector (<<>> before it is allocated)
    wstate,      \* per worker thread: "idle" or "computed" (row rendered, not sent)
    wjob,        \* per worker thread: [row, colors] of the job it holds
    seed,        \* per worker thread: the seed of its thread-local RNG
    rngpos,      \* per worker thread: how many values its RNG has produced
    world,       \* the shared scene (Arc<dyn Hittable>)
    camera,      \* the shared camera (Arc<Camera>)
    submitted,   \* history: how many tasks were submitted for each row
    sent,        \* history: the vector task r sent (<<>> if none yet)
    panicked,    \* history: rows whose task panicked before sending
    renderNo,    \* 1 for the first render, 2 for the second (SpecTwice)
    firstImage,  \* history: the image the first render returned
    fixedSeeds,  \* history: every RNG so far was seeded with FixedSeed
    recvOrder,   \* history: the rows in the order the main thread received them
    firstClean,  \* history: no task of the first render panicked
    \* ---- Renderer::ray_color ---------------------------------------------
    rcPhase,     \* "idle", "call" (a ray_color call is about to run), "unwind", "done"
    rcRay,       \* the `ray` argument of the current call
    rcDepth,     \* the `depth` argument of the current call
    rcStack,     \* the suspended callers: [emitted, attenuation] of each
    rcValue,     \* the value returned by the call that last returned
    rcScene,     \* the world: which material each surface has
    rcBg,        \* self.background_color
    rcD,         \* the depth the primary ray was traced with
    rcHits,      \* history: number of world.hit queries so far
    rcScatters,  \* history: number of scatter calls so far
    rcTrace,     \* history: one record per ray_color call
    \* ---- BvhNode over a world of primitives --------------------------------
    bvhPhase,    \* "idle", "list" (the world is a HittableList), "built", "queried", "panicked"
    worldObjects, \* HittableList.objects of the world
    bvhRoot,     \* the BvhNode built by BvhNode::from
    qRay,        \* the ray of the last hit query
    qTMin,       \* its t_min
    qTMax,       \* its t_max
    bvhResult,   \* what BvhNode::hit returned for it
    listResult,  \* what HittableList::hit returned for it
    objHits,     \* what hit returned for it on each object of the world by itself
    \* ---- ppm::write_file ---------------------------------------------------
    ppmPc,       \* "idle", "create", "magic", "size", "max", "pixels", "done", "error"
    ppmImage,    \* the `image` slice
    ppmLines,    \* the lines written to the file so far
    ppmR,        \* the loop variable r
    ppmC,        \* the loop variable c
    ppmRead,     \* history: the 1-based positions of `image` read so far
    \* ---- Renderer::multi_sample and the byte cast ----------------------------
    tonePc,      \* "idle", "sum" (the samples are summed), "mapped", "written"
    toneSum,     \* pixel_color: the sum of the samples
    toneN,       \* samples_per_pixel
    toneClamps,  \* history: argument and result of each call of clamp
    toneColor,   \* the Color multi_sample returned
    toneBytes,   \* the three bytes write_file formats
    \* ---- main ----------------------------------------------------------------
    mainPc,      \* "idle", "start", "parsed", "rendered", "written", "exited"
    mainArgs,    \* env::args(): the name of the program, then its arguments
    mainCommand, \* what Command::new returned
    mainStderr,  \* the messages printed with eprintln!
    mainRendered, \* the scene was rendered
    mainWrite,   \* what write_file returned: "none", "ok", "err"
    mainExit,    \* <<>> while the process runs, then <<its exit code>>
    \* ---- Material::scatter -----------------------------------------------------
    scPc,        \* "idle", "hit" (ray_color has a hit record), "scattered"
    scMat,       \* rec.mat_ptr: the kind of material, its fuzz, its ref_idx
    scIn,        \* r_in.direction()
    scNormal,    \* rec.normal
    scFront,     \* rec.front_face
    scOut,       \* what scatter returned: whether Some, and scattered.direction()
    \* ---- ImageTexture::value ---------------------------------------------------
    texPc,       \* "idle", "call", "returned", "panicked"
    texture,     \* self: data, width, height, bytes_per_scanline
    texU,        \* the argument u
    texV,        \* the argument v
    texRead,     \* history: the offsets of the bytes of data read
    texColor,    \* the Color returned, in units of COLOR_SCALE
    \* ---- ConstantMedium::hit and the BVH leaf of one object -----------------------
    cmPc,        \* "idle", "query", "direct" (x.hit has returned), "left", "right", "leaf"
    cmX,         \* the object x
    cmRay,       \* the ray r
    cmTMin,      \* t_min
    cmTMax,      \* t_max
    cmDraws,     \* the hit distances the first and the second call on a medium draw
    cmDirect,    \* what x.hit(r, t_min, t_max) returned
    cmLeft,      \* what the leaf's left child returned (hit_left)
    cmLeaf,      \* what the hit of the leaf node over x returned
    \* split_volumes's activations
    svPc,        \* idle, running, returned, panicked, overflow
    svStack,     \* the frames of split_volumes, the innermost last
    svRet        \* what the call that returned last returned

renderVars == <<pcMain, nextRow, jobs, senders, chan, image, wstate, wjob, seed,
                rngpos, world, camera, submitted, sent, panicked, renderNo,
                firstImage, fixedSeeds, recvOrder, firstClean>>

rayVars == <<rcPhase, rcRay, rcDepth, rcStack, rcValue, rcScene, rcBg, rcD, rcHits,
             rcScatters, rcTrace>>

bvhVars == <<bvhPhase, worldObjects, bvhRoot, qRay, qTMin, qTMax, bvhResult, listResult,
             objHits>>

ppmVars == <<ppmPc, ppmImage, ppmLines, ppmR, ppmC, ppmRead>>

toneVars == <<tonePc, toneSum, toneN, toneClamps, toneColor, toneBytes>>

mainVars == <<mainPc, mainArgs, mainCommand, mainStderr, mainRendered, mainWrite, mainExit>>

scVars == <<scPc, scMat, scIn, scNormal, scFront, scOut>>

texVars == <<texPc, texture, texU, texV, texRead, texColor>>

cmVars == <<cmPc, cmX, cmRay, cmTMin, cmTMax, cmDraws, cmDirect, cmLeft, cmLeaf>>

svVars == <<svPc, svStack, svRet>>

vars == <<renderVars, rayVars, bvhVars, ppmVars, toneVars, mainVars, scVars, texVars, cmVars, svVars>>

(***************************************************************************)
(* Bounds of the scheduler model.                                          *)
(***************************************************************************)
ImageWidth == 2
ImageHeight == 3
NumWorkers == 2
\* the model RNG produces values in 0..RngMod-1
RngMod == 3
\* the seed of the fixed seeding policy
FixedSeed == 0

Rows == 0..(ImageHeight - 1)
Cols == 0..(ImageWidth - 1)
Workers == 1..NumWorkers
\* seeds an entropy-seeded thread-local RNG may get
Seeds == {FixedSeed, FixedSeed + 1}

\* Color::default()
Black == <<0, 0, 0>>

\* the i-th value of a generator seeded with s (a stand-in for rand's generator:
\* a deterministic function of the seed and the position in the stream)
RngValue(s, i) == (s + i) % RngMod

\* The color render_scanline computes for pixel (row, col) from the random values
\* it draws for that pixel: the jittered u, v and everything ray_color draws
\* below are a function of the RNG stream, so the pixel is a function of the
\* pixel coordinates and of the value x drawn.
PixelColor(row, col, x) == <<row + 1, col + 1, x>>

\* Renderer::render_scanline: the row's colors, left to right, each pixel
\* consuming the next value of the calling thread's RNG.
RenderScanline(row, s, pos) ==
    [c \in 1..ImageWidth |-> PixelColor(row, c - 1, RngValue(s, pos + c - 1))]

NoJob == [row |-> -1, colors |-> <<>>]

\* vec![Color::default(); image_width * image_height]
DefaultImage == [i \in 1..(ImageWidth * ImageHeight) |-> Black]

\* PlaceRow with ridx = row instead of row * image_width
MutPlaceRow(img, row, colors) ==
    [i \in 1..(ImageWidth * ImageHeight) |->
        IF i - 1 >= row /\ i - 1 < row + Len(colors)
        THEN colors[i - row]
        ELSE img[i]]

\* image[ridx..ridx + W] = row_colors   (the image is 0-indexed in the code,
\* 1-indexed here: code index k is model index k + 1)
PlaceRow(img, row, colors) ==
    [i \in 1..(ImageWidth * ImageHeight) |->
        IF i - 1 >= row * ImageWidth /\ i - 1 < row * ImageWidth + Len(colors)
        THEN colors[i - row * ImageWidth]
        ELSE img[i]]

RenderInit ==
    /\ pcMain = "start"
    /\ nextRow = 0
    /\ jobs = <<>>
    /\ senders = 0
    /\ chan = <<>>
    /\ image = <<>>
    /\ wstate = [w \in Workers |-> "none"]
    /\ wjob = [w \in Workers |-> NoJob]
    /\ seed = [w \in Workers |-> 0]
    /\ rngpos = [w \in Workers |-> 0]
    /\ world = "list"
    /\ camera = "camera"
    /\ submitted = [r \in Rows |-> 0]
    /\ sent = [r \in Rows |-> <<>>]
    /\ panicked = {}
    /\ renderNo = 1
    /\ firstImage = <<>>
    /\ fixedSeeds = TRUE
    /\ recvOrder = <<>>
    /\ firstClean = TRUE

\* render, lines 92-99: ThreadPool::new spawns the worker threads (each with its
\* own thread-local RNG, seeded from OS entropy at first use), the world is
\* rebuilt as a BVH behind an Arc, the camera is wrapped in an Arc and the
\* results channel is created with its one original Sender.
NewPool ==
    /\ pcMain = "start"
    /\ NumWorkers >= 1
    /\ \E sd \in [Workers -> Seeds] :
          /\ seed' = sd
          /\ fixedSeeds' = (fixedSeeds /\ \A w \in Workers : sd[w] = FixedSeed)
    /\ rngpos' = [w \in Workers |-> 0]
    /\ wstate' = [w \in Workers |-> "idle"]
    /\ world' = "bvh"
    /\ senders' = 1
    /\ pcMain' = "submit"
    /\ UNCHANGED <<nextRow, jobs, chan, image, wjob, camera, submitted, sent,
                   panicked, renderNo, firstImage, recvOrder, firstClean>>

\* render, lines 103-113: one iteration of the submission loop: clone the
\* Sender, move it into the closure and queue the closure on the pool.
Submit ==
    /\ pcMain = "submit"
    /\ nextRow < ImageHeight
    /\ jobs' = Append(jobs, nextRow)
    /\ senders' = senders + 1
    /\ submitted' = [submitted EXCEPT ![nextRow] = @ + 1]
    /\ nextRow' = nextRow + 1
    /\ UNCHANGED <<pcMain, chan, image, wstate, wjob, seed, rngpos, world, camera,
                   sent, panicked, renderNo, firstImage, fixedSeeds, recvOrder, firstClean>>

\* AllocImage with the original Sender kept alive (no block around the loop)
MutAllocImage ==
    /\ pcMain = "submit"
    /\ nextRow = ImageHeight
    /\ image' = DefaultImage
    /\ pcMain' = "recv"
    /\ UNCHANGED <<nextRow, jobs, senders, chan, wstate, wjob, seed, rngpos, world,
                   camera, submitted, sent, panicked, renderNo, firstImage,
                   fixedSeeds, recvOrder, firstClean>>

\* render, lines 114-123: the loop is over, the block ends and drops the
\* original Sender; the image vector is allocated.
AllocImage ==
    /\ pcMain = "submit"
    /\ nextRow = ImageHeight
    /\ senders' = senders - 1
    /\ image' = DefaultImage
    /\ pcMain' = "recv"
    /\ UNCHANGED <<nextRow, jobs, chan, wstate, wjob, seed, rngpos, world, camera,
                   submitted, sent, panicked, renderNo, firstImage, fixedSeeds, recvOrder, firstClean>>

\* render, lines 126-133: one iteration of `for (row, row_colors) in rx.iter()`.
Receive ==
    /\ pcMain = "recv"
    /\ chan # <<>>
    /\ image' = PlaceRow(image, Head(chan).row, Head(chan).colors)
    /\ chan' = Tail(chan)
    /\ recvOrder' = Append(recvOrder, Head(chan).row)
    /\ UNCHANGED <<pcMain, nextRow, jobs, senders, wstate, wjob, seed, rngpos, world,
                   camera, submitted, sent, panicked, renderNo, firstImage, fixedSeeds, firstClean>>

\* render, lines 126 and 134-139: rx.iter() ends when the channel is empty and
\* every Sender has been dropped; render returns the image.
Return ==
    /\ pcMain = "recv"
    /\ chan = <<>>
    /\ senders = 0
    /\ pcMain' = "returned"
    /\ UNCHANGED <<nextRow, jobs, senders, chan, image, wstate, wjob, seed, rngpos,
                   world, camera, submitted, sent, panicked, renderNo, firstImage,
                   fixedSeeds, recvOrder, firstClean>>

\* A worker thread takes the next closure from the pool's queue and runs its
\* first statement (line 109): render_scanline, which reads the shared world and
\* camera and draws from the thread's own RNG.
WorkerRender(w) ==
    /\ wstate[w] = "idle"
    /\ jobs # <<>>
    /\ jobs' = Tail(jobs)
    /\ wjob' = [wjob EXCEPT ![w] =
                   [row |-> Head(jobs),
                    colors |-> RenderScanline(Head(jobs), seed[w], rngpos[w])]]
    /\ rngpos' = [rngpos EXCEPT ![w] = @ + ImageWidth]
    /\ wstate' = [wstate EXCEPT ![w] = "computed"]
    /\ UNCHANGED <<pcMain, nextRow, senders, chan, image, seed, world, camera,
                   submitted, sent, panicked, renderNo, firstImage, fixedSeeds, recvOrder, firstClean>>

\* WorkerSend with the worker writing its row into the image itself
MutWorkerSend(w) ==
    /\ wstate[w] = "computed"
    /\ chan' = Append(chan, wjob[w])
    /\ image' = IF image = <<>> THEN image
                ELSE PlaceRow(image, wjob[w].row, wjob[w].colors)
    /\ sent' = [sent EXCEPT ![wjob[w].row] = wjob[w].colors]
    /\ senders' = senders - 1
    /\ wjob' = [wjob EXCEPT ![w] = NoJob]
    /\ wstate' = [wstate EXCEPT ![w] = "idle"]
    /\ UNCHANGED <<pcMain, nextRow, jobs, seed, rngpos, world, camera,
                   submitted, panicked, renderNo, firstImage, fixedSeeds,
                   recvOrder, firstClean>>

\* The closure's second statement (lines 110-111): send (row, row_colors); the
\* closure then ends and drops its Sender clone. The channel is unbounded, so the
\* send never blocks.
WorkerSend(w) ==
    /\ wstate[w] = "computed"
    /\ chan' = Append(chan, wjob[w])
    /\ sent' = [sent EXCEPT ![wjob[w].row] = wjob[w].colors]
    /\ senders' = senders - 1
    /\ wjob' = [wjob EXCEPT ![w] = NoJob]
    /\ wstate' = [wstate EXCEPT ![w] = "idle"]
    /\ UNCHANGED <<pcMain, nextRow, jobs, image, seed, rngpos, world, camera,
                   submitted, panicked, renderNo, firstImage, fixedSeeds, recvOrder, firstClean>>

\* A worker thread takes the next closure and render_scanline panics inside it
\* (the panic of a texture, a material or a primitive). The unwinding drops the
\* closure's Sender clone; the pool replaces the dead thread by a new one, whose
\* thread-local RNG is new. Nothing is sent and the main thread is not told.
WorkerPanic(w) ==
    /\ wstate[w] = "idle"
    /\ jobs # <<>>
    /\ jobs' = Tail(jobs)
    /\ panicked' = panicked \cup {Head(jobs)}
    /\ senders' = senders - 1
    /\ \E s \in Seeds :
          /\ seed' = [seed EXCEPT ![w] = s]
          /\ fixedSeeds' = (fixedSeeds /\ s = FixedSeed)
    /\ rngpos' = [rngpos EXCEPT ![w] = 0]
    /\ UNCHANGED <<pcMain, nextRow, chan, image, wstate, wjob, world, camera,
                   submitted, sent, renderNo, firstImage, recvOrder, firstClean>>

\* A second call of render with the same world, camera and parameters, after
\* the first returned: everything render owns starts afresh (a new pool, new
\* threads, a new channel, a new image). The second render is taken only after a
\* first one whose RNGs all had the fixed seed and in which no task panicked.
SecondRender ==
    /\ pcMain = "returned"
    /\ renderNo = 1
    /\ fixedSeeds
    /\ panicked = {}
    /\ firstImage' = image
    /\ firstClean' = (panicked = {})
    /\ renderNo' = 2
    /\ pcMain' = "start"
    /\ nextRow' = 0
    /\ jobs' = <<>>
    /\ senders' = 0
    /\ chan' = <<>>
    /\ image' = <<>>
    /\ wstate' = [w \in Workers |-> "none"]
    /\ wjob' = [w \in Workers |-> NoJob]
    /\ seed' = [w \in Workers |-> 0]
    /\ rngpos' = [w \in Workers |-> 0]
    /\ world' = "list"
    /\ submitted' = [r \in Rows |-> 0]
    /\ sent' = [r \in Rows |-> <<>>]
    /\ recvOrder' = <<>>
    /\ UNCHANGED <<camera, panicked, fixedSeeds>>

(***************************************************************************)
(* Numbers. A length, a ray parameter t or a coordinate is an integer in   *)
(* units of 0.00001; PInf, NInf and NaN stand for the f64 values of the    *)
(* same names, and the comparisons are IEEE 754's (false on NaN).          *)
(***************************************************************************)
PInf == 1000000000
NInf == -1000000000
NaN == 2000000000

IsNaN(a) == a = NaN
IsInf(a) == a = PInf \/ a = NInf
IsFinite(a) == ~IsNaN(a) /\ ~IsInf(a)

Lt(a, b) == ~IsNaN(a) /\ ~IsNaN(b) /\ a < b
Gt(a, b) == ~IsNaN(a) /\ ~IsNaN(b) /\ a > b
Le(a, b) == ~IsNaN(a) /\ ~IsNaN(b) /\ a <= b
Ge(a, b) == ~IsNaN(a) /\ ~IsNaN(b) /\ a >= b

\* the t_min ray_color passes to world.hit: 0.001
TMin == 100

(***************************************************************************)
(* Renderer::ray_color over an abstract world.                             *)
(*                                                                         *)
(* ray_color is generic in the world (any Hittable). The world here is a   *)
(* set of surface points 1..NumPoints, point 0 being the camera. A ray     *)
(* leaves a point in one of NumDirs directions; the surface it meets and   *)
(* the parameter t at which it meets it are tabulated. A ray that leaves a *)
(* surface point also meets that same surface at t = AcneT, closer than    *)
(* 0.001 (the self-intersection the t_min of 0.001 is there to skip).      *)
(***************************************************************************)
NumPoints == 3
NumDirs == 2
MaxDepth == 2

Points == 0..NumPoints
Surfaces == 1..NumPoints
Dirs == 1..NumDirs
Times == {0, 1}
Depths == 0..MaxDepth

MatKinds == <<"lambertian", "metal", "dielectric", "light", "isotropic">>

\* t of the self-intersection of a scattered ray with the surface it leaves
AcneT == 1

White == <<1, 1, 1>>

NoHit == [p |-> 0, t |-> NaN]

\* the surface a ray from point o in direction d meets (0: none) and where
FarHit(o, d) == [p |-> (o + d) % (NumPoints + 1), t |-> 1000 * d]

\* every intersection of the ray with the world
RayCandidates(ray) ==
    (IF ray.o \in Surfaces THEN {[p |-> ray.o, t |-> AcneT]} ELSE {})
    \cup (IF FarHit(ray.o, ray.d).p \in Surfaces THEN {FarHit(ray.o, ray.d)} ELSE {})

\* world.hit(ray, t_min, t_max): the closest intersection with t_min < t < t_max
WorldHit(ray, tmin, tmax) ==
    LET inside == {h \in RayCandidates(ray) : Gt(h.t, tmin) /\ Lt(h.t, tmax)}
    IN IF inside = {} THEN NoHit
       ELSE CHOOSE h \in inside : \A g \in inside : h.t <= g.t

\* the y component of the unit vector of direction d: -1, 0 or 1
DirY(d) == (d % 3) - 1

\* the texture of the material of surface p, sampled at the hit: texture.value(u, v, p)
TexValue(p) == <<p + 1, 2, p % 2>>

ColorAdd(a, b) == [i \in 1..3 |-> a[i] + b[i]]
\* Color * Color: componentwise
ColorMul(a, b) == [i \in 1..3 |-> a[i] * b[i]]

\* Renderer::linear_blend with t = 0.5 * (y + 1): (1 - t) * from + t * to
LinearBlend(ray, from, to) ==
    [i \in 1..3 |-> ((1 - DirY(ray.d)) * from[i] + (1 + DirY(ray.d)) * to[i]) \div 2]

Backgrounds == {[kind |-> "Solid", color |-> <<2, 0, 2>>, to |-> Black],
                [kind |-> "LinearInterp", color |-> <<2, 2, 2>>, to |-> <<0, 2, 4>>]}

\* ray_color, lines 194-197
BackgroundSample(bg, ray) ==
    IF bg.kind = "Solid" THEN bg.color ELSE LinearBlend(ray, bg.color, bg.to)

\* Material::emitted: the texture for DiffuseLight, black by default
Emitted(kind, p) == IF kind = "light" THEN TexValue(p) ELSE Black

NoScatter == [some |-> FALSE, attenuation |-> Black, scattered |-> [o |-> 0, d |-> 0, time |-> 0]]

SomeScatter(att, ray) == [some |-> TRUE, attenuation |-> att, scattered |-> ray]

\* Lambertian::scatter: Ray::new(rec.p, rec.normal + random_unit_vector(), r_in.time())
LambertianScatter(rin, p) ==
    {SomeScatter(TexValue(p), [o |-> p, d |-> d, time |-> rin.time]) : d \in Dirs}

\* Metal::scatter: the reflected, fuzzed ray if it points out of the surface
MetalScatter(rin, p) ==
    {NoScatter} \cup {SomeScatter(TexValue(p), [o |-> p, d |-> d, time |-> rin.time]) : d \in Dirs}

\* Dielectric::scatter: Ray::new(rec.p, reflected) or Ray::new(rec.p, refracted):
\* the call passes no time, so the ray's time is not taken from r_in
DielectricScatter(rin, p) ==
    {SomeScatter(White, [o |-> p, d |-> d, time |-> tm]) : d \in Dirs, tm \in Times}

\* DiffuseLight::scatter
DiffuseLightScatter(rin, p) == {NoScatter}

\* Isotropic::scatter: Ray::new(rec.p, random_in_unit_sphere(), r_in.time())
IsotropicScatter(rin, p) ==
    {SomeScatter(TexValue(p), [o |-> p, d |-> d, time |-> rin.time]) : d \in Dirs}

\* rec.mat_ptr.scatter(ray, rec): every outcome the material's random draws allow
Scatter(kind, rin, p) ==
    CASE kind = "lambertian" -> LambertianScatter(rin, p)
      [] kind = "metal" -> MetalScatter(rin, p)
      [] kind = "dielectric" -> DielectricScatter(rin, p)
      [] kind = "light" -> DiffuseLightScatter(rin, p)
      [] kind = "isotropic" -> IsotropicScatter(rin, p)

\* the scenes: surface p has material MatKinds[(p + shift) mod 5]
Scenes == {[p \in Surfaces |-> MatKinds[((p + shift) % 5) + 1]] : shift \in 0..4}

RayIdle ==
    /\ rcPhase = "idle"
    /\ rcRay = [o |-> 0, d |-> 0, time |-> 0]
    /\ rcDepth = 0
    /\ rcStack = <<>>
    /\ rcValue = Black
    /\ rcScene = <<>>
    /\ rcBg = [kind |-> "Solid", color |-> Black, to |-> Black]
    /\ rcD = 0
    /\ rcHits = 0
    /\ rcScatters = 0
    /\ rcTrace = <<>>

\* render_scanline, lines 162-164: a primary ray from the camera, with the time
\* get_ray gave it, is traced with the configured bounce depth
RayInit ==
    /\ rcPhase = "call"
    /\ rcRay \in [o : {0}, d : Dirs, time : Times]
    /\ rcDepth \in Depths
    /\ rcD = rcDepth
    /\ rcStack = <<>>
    /\ rcValue = Black
    /\ rcScene \in Scenes
    /\ rcBg \in Backgrounds
    /\ rcHits = 0
    /\ rcScatters = 0
    /\ rcTrace = <<>>

TraceEntry(kind, tmin, tmax, hit, em, sc) ==
    [kind |-> kind, ray |-> rcRay, depth |-> rcDepth, tmin |-> tmin, tmax |-> tmax,
     hit |-> hit, emitted |-> em, attenuation |-> sc.attenuation]

\* ray_color, lines 177-179: depth == 0 returns black
RayColorDepthZero ==
    /\ rcPhase = "call"
    /\ rcDepth = 0
    /\ rcValue' = Black
    /\ rcPhase' = "unwind"
    /\ rcTrace' = Append(rcTrace, TraceEntry("depth0", NaN, NaN, NoHit, Black, NoScatter))
    /\ UNCHANGED <<rcRay, rcDepth, rcStack, rcScene, rcBg, rcD, rcHits, rcScatters>>

\* ray_color, lines 183 and 192-198: nothing hit, the background is returned.
\* (rcHits <= MaxDepth + 1 keeps the state space finite; rcHits never exceeds
\* the depth, so the guard never stops a call.)
RayColorMiss ==
    /\ rcPhase = "call"
    /\ rcDepth > 0
    /\ rcHits <= MaxDepth + 1
    /\ WorldHit(rcRay, TMin, PInf) = NoHit
    /\ rcHits' = rcHits + 1
    /\ rcValue' = BackgroundSample(rcBg, rcRay)
    /\ rcPhase' = "unwind"
    /\ rcTrace' = Append(rcTrace, TraceEntry("miss", TMin, PInf, NoHit, Black, NoScatter))
    /\ UNCHANGED <<rcRay, rcDepth, rcStack, rcScene, rcBg, rcD, rcScatters>>

\* RayColorHit recursing with depth instead of depth - 1
MutRayColorHit ==
    /\ rcPhase = "call"
    /\ rcDepth > 0
    /\ rcHits <= MaxDepth + 1
    /\ LET rec == WorldHit(rcRay, TMin, PInf)
           kind == rcScene[rec.p]
           emitted == Emitted(kind, rec.p)
       IN /\ rec # NoHit
          /\ rcHits' = rcHits + 1
          /\ rcScatters' = rcScatters + 1
          /\ \E sc \in Scatter(kind, rcRay, rec.p) :
                /\ rcTrace' = Append(rcTrace,
                       TraceEntry(IF sc.some THEN "scatter" ELSE "emit",
                                  TMin, PInf, rec, emitted, sc))
                /\ IF sc.some
                   THEN /\ rcStack' = Append(rcStack,
                               [emitted |-> emitted, attenuation |-> sc.attenuation])
                        /\ rcRay' = sc.scattered
                        /\ rcDepth' = rcDepth
                        /\ UNCHANGED <<rcValue, rcPhase>>
                   ELSE /\ rcValue' = emitted
                        /\ rcPhase' = "unwind"
                        /\ UNCHANGED <<rcStack, rcRay, rcDepth>>
    /\ UNCHANGED <<rcScene, rcBg, rcD>>

\* ray_color, lines 183-191: something is hit; its material emits and scatters.
\* Without a scattered ray the emitted color is returned; with one, the call
\* recurses on it with depth - 1 and this call waits for the result.
RayColorHit ==
    /\ rcPhase = "call"
    /\ rcDepth > 0
    /\ rcHits <= MaxDepth + 1
    /\ LET rec == WorldHit(rcRay, TMin, PInf)
           kind == rcScene[rec.p]
           emitted == Emitted(kind, rec.p)
       IN /\ rec # NoHit
          /\ rcHits' = rcHits + 1
          /\ rcScatters' = rcScatters + 1
          /\ \E sc \in Scatter(kind, rcRay, rec.p) :
                /\ rcTrace' = Append(rcTrace,
                       TraceEntry(IF sc.some THEN "scatter" ELSE "emit",
                                  TMin, PInf, rec, emitted, sc))
                /\ IF sc.some
                   THEN /\ rcStack' = Append(rcStack,
                               [emitted |-> emitted, attenuation |-> sc.attenuation])
                        /\ rcRay' = sc.scattered
                        /\ rcDepth' = rcDepth - 1
                        /\ UNCHANGED <<rcValue, rcPhase>>
                   ELSE /\ rcValue' = emitted
                        /\ rcPhase' = "unwind"
                        /\ UNCHANGED <<rcStack, rcRay, rcDepth>>
    /\ UNCHANGED <<rcScene, rcBg, rcD>>

\* RayColorReturn adding the attenuation instead of multiplying by it
MutRayColorReturn ==
    /\ rcPhase = "unwind"
    /\ rcStack # <<>>
    /\ LET top == rcStack[Len(rcStack)]
       IN rcValue' = ColorAdd(top.emitted, ColorAdd(top.attenuation, rcValue))
    /\ rcStack' = SubSeq(rcStack, 1, Len(rcStack) - 1)
    /\ UNCHANGED <<rcPhase, rcRay, rcDepth, rcScene, rcBg, rcD, rcHits, rcScatters, rcTrace>>

\* ray_color, lines 187-188: the recursive call has returned; the waiting call
\* returns emitted + attenuation * (the value returned)
RayColorReturn ==
    /\ rcPhase = "unwind"
    /\ rcStack # <<>>
    /\ LET top == rcStack[Len(rcStack)]
       IN rcValue' = ColorAdd(top.emitted, ColorMul(top.attenuation, rcValue))
    /\ rcStack' = SubSeq(rcStack, 1, Len(rcStack) - 1)
    /\ UNCHANGED <<rcPhase, rcRay, rcDepth, rcScene, rcBg, rcD, rcHits, rcScatters, rcTrace>>

\* the outermost call has returned to render_scanline
RayColorDone ==
    /\ rcPhase = "unwind"
    /\ rcStack = <<>>
    /\ rcPhase' = "done"
    /\ UNCHANGED <<rcRay, rcDepth, rcStack, rcValue, rcScene, rcBg, rcD, rcHits,
                   rcScatters, rcTrace>>

RayNext ==
    \/ RayColorDepthZero
    \/ RayColorMiss
    \/ RayColorHit
    \/ RayColorReturn
    \/ RayColorDone

(***************************************************************************)
(* f64 arithmetic on the encoded numbers. Finite operands are exact: the   *)
(* scenes and rays below are chosen so that no operation rounds.           *)
(***************************************************************************)
Sign(a) == IF a > 0 THEN 1 ELSE IF a < 0 THEN -1 ELSE 0

Neg(a) == IF IsNaN(a) THEN NaN ELSE IF a = PInf THEN NInf ELSE IF a = NInf THEN PInf ELSE -a

Add(a, b) ==
    IF IsNaN(a) \/ IsNaN(b) THEN NaN
    ELSE IF IsInf(a) THEN (IF IsInf(b) /\ b # a THEN NaN ELSE a)
    ELSE IF IsInf(b) THEN b
    ELSE a + b

Sub(a, b) == Add(a, Neg(b))

\* a * b; of two finite factors one is -1, 0 or 1
Mul(a, b) ==
    IF IsNaN(a) \/ IsNaN(b) THEN NaN
    ELSE IF IsInf(a) \/ IsInf(b)
         THEN (IF Sign(a) * Sign(b) = 0 THEN NaN
               ELSE IF Sign(a) * Sign(b) > 0 THEN PInf ELSE NInf)
    ELSE a * b

\* a / b; a finite divisor is -1, 0 (positive zero) or 1
Div(a, b) ==
    IF IsNaN(a) \/ IsNaN(b) THEN NaN
    ELSE IF b = 0 THEN (IF a = 0 THEN NaN ELSE IF a > 0 THEN PInf ELSE NInf)
    ELSE IF IsInf(b) THEN (IF IsInf(a) THEN NaN ELSE 0)
    ELSE IF IsInf(a) THEN (IF Sign(a) * Sign(b) > 0 THEN PInf ELSE NInf)
    ELSE a * b

\* f64::min and f64::max: the other operand when one is NaN
FMin(a, b) == IF IsNaN(a) THEN b ELSE IF IsNaN(b) THEN a ELSE IF a < b THEN a ELSE b
FMax(a, b) == IF IsNaN(a) THEN b ELSE IF IsNaN(b) THEN a ELSE IF a > b THEN a ELSE b

\* the exact square root of a perfect square
Sqrt(n) == CHOOSE k \in 0..n : k * k = n

(***************************************************************************)
(* Geometry: Aabb, the primitives, HittableList and BvhNode.               *)
(*                                                                         *)
(* A point or vector is a triple indexed 1..3 (the code's axes 0..2). The  *)
(* length 1.0 is Grid units. Sphere centres, radii and ray origins are     *)
(* whole multiples of Grid and ray directions are the six axis directions, *)
(* so that every t and every discriminant is exact.                        *)
(***************************************************************************)
Grid == 100000

\* the padding of a rectangle's bounding box: 0.001
RectPad == 100

Axes == 1..3

\* the point (x, y, z), given in multiples of 1.0
Point3(x, y, z) == <<x * Grid, y * Grid, z * Grid>>

Dot(u, v) == u[1] * v[1] + u[2] * v[2] + u[3] * v[3]

\* ---- Aabb ---------------------------------------------------------------
Aabb(a, b) == [min |-> a, max |-> b]

AabbDefault == Aabb(<<PInf, PInf, PInf>>, <<NInf, NInf, NInf>>)

NoInterval == [some |-> FALSE, tmin |-> 0, tmax |-> 0]

\* the loop of Aabb::hit from axis a on, with the interval narrowed so far
RECURSIVE AabbHitFrom(_, _, _, _, _)
AabbHitFrom(box, r, a, tmin, tmax) ==
    IF a > 3 THEN [some |-> TRUE, tmin |-> tmin, tmax |-> tmax]
    ELSE LET inv_d == Div(1, r.d[a])
             ta == Mul(Sub(box.min[a], r.o[a]), inv_d)
             tb == Mul(Sub(box.max[a], r.o[a]), inv_d)
             t0 == IF Lt(inv_d, 0) THEN tb ELSE ta
             t1 == IF Lt(inv_d, 0) THEN ta ELSE tb
             tmin2 == IF Gt(t0, tmin) THEN t0 ELSE tmin
             tmax2 == IF Lt(t1, tmax) THEN t1 ELSE tmax
         IN IF Le(tmax2, tmin2) THEN NoInterval
            ELSE AabbHitFrom(box, r, a + 1, tmin2, tmax2)

AabbHit(box, r, tmin, tmax) == AabbHitFrom(box, r, 1, tmin, tmax)

\* Aabb::surrounding_box with the lower corner taken from box0 alone
MutSurroundingBox(box0, box1) ==
    Aabb(box0.min, [i \in Axes |-> FMax(box0.max[i], box1.max[i])])

SurroundingBox(box0, box1) ==
    Aabb([i \in Axes |-> FMin(box0.min[i], box1.min[i])],
         [i \in Axes |-> FMax(box0.max[i], box1.max[i])])

\* ---- the hittables ------------------------------------------------------
Sphere(id, center, radius) ==
    [kind |-> "sphere", id |-> id, center |-> center, radius |-> radius]

MovingSphere(id, center0, center1, time0, time1, radius) ==
    [kind |-> "moving_sphere", id |-> id, center0 |-> center0, center1 |-> center1,
     time0 |-> time0, time1 |-> time1, radius |-> radius]

XYRect(id, x0, x1, y0, y1, k) ==
    [kind |-> "xy_rect", id |-> id, a0 |-> x0, a1 |-> x1, b0 |-> y0, b1 |-> y1, k |-> k]

XZRect(id, x0, x1, z0, z1, k) ==
    [kind |-> "xz_rect", id |-> id, a0 |-> x0, a1 |-> x1, b0 |-> z0, b1 |-> z1, k |-> k]

YZRect(id, y0, y1, z0, z1, k) ==
    [kind |-> "yz_rect", id |-> id, a0 |-> y0, a1 |-> y1, b0 |-> z0, b1 |-> z1, k |-> k]

FlipFace(ptr) == [kind |-> "flip_face", ptr |-> ptr]

HittableList(objects) == [kind |-> "list", objects |-> objects]

\* BoxInst::from: the six sides, every second one flipped
BoxInst(id, p0, p1) ==
    [kind |-> "box", id |-> id, box_min |-> p0, box_max |-> p1,
     sides |-> HittableList(<<
         XYRect(id, p0[1], p1[1], p0[2], p1[2], p1[3]),
         FlipFace(XYRect(id, p0[1], p1[1], p0[2], p1[2], p0[3])),
         XZRect(id, p0[1], p1[1], p0[3], p1[3], p1[2]),
         FlipFace(XZRect(id, p0[1], p1[1], p0[3], p1[3], p0[2])),
         YZRect(id, p0[2], p1[2], p0[3], p1[3], p1[1]),
         FlipFace(YZRect(id, p0[2], p1[2], p0[3], p1[3], p0[1]))>>)]

Translate(ptr, offset) == [kind |-> "translate", ptr |-> ptr, offset |-> offset]

\* Option<HitRecord>. id names the primitive whose material mat_ptr is; u and v
\* are fractions <<numerator, denominator>>
NoneHit ==
    [some |-> FALSE, p |-> <<0, 0, 0>>, normal |-> <<0, 0, 0>>, id |-> 0, t |-> 0,
     u |-> <<0, 1>>, v |-> <<0, 1>>, front_face |-> FALSE]

\* Ray::at: origin + t * direction
RayAt(r, t) == [i \in Axes |-> Add(r.o[i], Mul(t, r.d[i]))]

VecNeg(n) == [i \in Axes |-> -n[i]]

\* HitRecord::hit_front_face
HitFrontFace(ray, outward_normal) == Dot(ray.d, outward_normal) < 0

\* HitRecord::with_face_normal
WithFaceNormal(ray, point, outward_normal, id, t, u, v) ==
    LET front_face == HitFrontFace(ray, outward_normal)
    IN [some |-> TRUE, p |-> point,
        normal |-> IF front_face THEN outward_normal ELSE VecNeg(outward_normal),
        id |-> id, t |-> t, u |-> u, v |-> v, front_face |-> front_face]

\* HitRecord::set_face_normal
SetFaceNormal(rec, ray, outward_normal) ==
    LET front_face == HitFrontFace(ray, outward_normal)
    IN [rec EXCEPT !.front_face = front_face,
                   !.normal = IF front_face THEN outward_normal ELSE VecNeg(outward_normal)]

\* texture::get_sphere_uv for a unit vector along an axis:
\* u = 1 - (atan2(z, x) + pi) / (2 pi), v = (asin(y) + pi / 2) / pi
GetSphereUV(n) ==
    [u |-> <<IF n[3] = 1 THEN 1 ELSE IF n[3] = -1 THEN 3 ELSE IF n[1] = -1 THEN 0 ELSE 2, 4>>,
     v |-> <<2 + 2 * n[2], 4>>]

\* MovingSphere::center: center0 + ((time - time0) / (time1 - time0)) * (center1 - center0);
\* time1 - time0 is 1.0
MovingSphereCenter(obj, time) ==
    [i \in Axes |-> obj.center0[i]
                    + ((time - obj.time0) \div (obj.time1 - obj.time0))
                      * (obj.center1[i] - obj.center0[i])]

\* Sphere::hit and MovingSphere::hit for the sphere's centre at the ray's time;
\* the squares are computed in units of 1.0
SphereHitAt(center, radius, id, r, t_min, t_max) ==
    LET oc == [i \in Axes |-> (r.o[i] - center[i]) \div Grid]
        a == Dot(r.d, r.d)
        half_b == Dot(oc, r.d)
        c == Dot(oc, oc) - (radius \div Grid) * (radius \div Grid)
        discriminant == half_b * half_b - a * c
    IN IF discriminant > 0
       THEN LET root == Sqrt(discriminant)
                t_near == ((-half_b - root) * Grid) \div a
                t_far == ((-half_b + root) * Grid) \div a
                build_hit_record(t) ==
                    LET hit_point == RayAt(r, t)
                        outward_normal == [i \in Axes |-> (hit_point[i] - center[i]) \div radius]
                        uv == GetSphereUV(outward_normal)
                    IN WithFaceNormal(r, hit_point, outward_normal, id, t, uv.u, uv.v)
            IN IF Lt(t_near, t_max) /\ Gt(t_near, t_min)
               THEN build_hit_record(t_near)
               ELSE IF Lt(t_far, t_max) /\ Gt(t_far, t_min)
                    THEN build_hit_record(t_far)
                    ELSE NoneHit
       ELSE NoneHit

SphereHit(obj, r, t_min, t_max) ==
    SphereHitAt(obj.center, obj.radius, obj.id, r, t_min, t_max)

\* MovingSphere::hit passes no u, v to the record
MovingSphereHit(obj, r, t_min, t_max) ==
    LET rec == SphereHitAt(MovingSphereCenter(obj, r.time), obj.radius, obj.id, r, t_min, t_max)
    IN IF rec.some THEN [rec EXCEPT !.u = <<0, 1>>, !.v = <<0, 1>>] ELSE NoneHit

\* XYRect::hit, XZRect::hit and YZRect::hit: the rectangle spans the axes ia
\* and ib and lies at k on the axis ik; its outward normal is the unit vector
\* of ik
RectHit(obj, ia, ib, ik, r, t_min, t_max) ==
    LET t == Div(Sub(obj.k, r.o[ik]), r.d[ik])
        x == Add(r.o[ia], Mul(t, r.d[ia]))
        y == Add(r.o[ib], Mul(t, r.d[ib]))
    IN IF Lt(t, t_min) \/ Gt(t, t_max) THEN NoneHit
       ELSE IF Lt(x, obj.a0) \/ Gt(x, obj.a1) \/ Lt(y, obj.b0) \/ Gt(y, obj.b1) THEN NoneHit
       ELSE WithFaceNormal(r, RayAt(r, t), [i \in Axes |-> IF i = ik THEN 1 ELSE 0], obj.id, t,
                           <<Sub(x, obj.a0), obj.a1 - obj.a0>>,
                           <<Sub(y, obj.b0), obj.b1 - obj.b0>>)

XYRectHit(obj, r, t_min, t_max) == RectHit(obj, 1, 2, 3, r, t_min, t_max)
XZRectHit(obj, r, t_min, t_max) == RectHit(obj, 1, 3, 2, r, t_min, t_max)
YZRectHit(obj, r, t_min, t_max) == RectHit(obj, 2, 3, 1, r, t_min, t_max)

RECURSIVE Hit(_, _, _, _)
RECURSIVE HittableListHitFrom(_, _, _, _, _, _)

\* the loop of HittableList::hit from the i-th object on
HittableListHitFrom(objects, i, r, t_min, closest_so_far, hit_anything) ==
    IF i > Len(objects) THEN hit_anything
    ELSE LET hit_record == Hit(objects[i], r, t_min, closest_so_far)
         IN IF hit_record.some
            THEN HittableListHitFrom(objects, i + 1, r, t_min, hit_record.t, hit_record)
            ELSE HittableListHitFrom(objects, i + 1, r, t_min, closest_so_far, hit_anything)

HittableListHit(obj, r, t_min, t_max) ==
    HittableListHitFrom(obj.objects, 1, r, t_min, t_max, NoneHit)

\* FlipFaceHit returning the inner record as it is
MutFlipFaceHit(obj, r, t_min, t_max) == Hit(obj.ptr, r, t_min, t_max)

FlipFaceHit(obj, r, t_min, t_max) ==
    LET hit_rec == Hit(obj.ptr, r, t_min, t_max)
    IN IF hit_rec.some THEN [hit_rec EXCEPT !.front_face = ~hit_rec.front_face] ELSE NoneHit

BoxInstHit(obj, r, t_min, t_max) == HittableListHit(obj.sides, r, t_min, t_max)

\* the ray Translate::hit passes on: the origin moved back by the offset
TranslateRay(obj, r) ==
    [o |-> [i \in Axes |-> r.o[i] - obj.offset[i]], d |-> r.d, time |-> r.time]

\* Translate::hit: the inner hit with the point moved by the offset and the
\* face normal set again from the record's own normal
TranslateHit(obj, r, t_min, t_max) ==
    LET moved_r == TranslateRay(obj, r)
        rec == Hit(obj.ptr, moved_r, t_min, t_max)
    IN IF rec.some
       THEN SetFaceNormal([rec EXCEPT !.p = [i \in Axes |-> Add(rec.p[i], obj.offset[i])]],
                          moved_r, rec.normal)
       ELSE NoneHit

BvhNodeHit(obj, ray, t_min, t_max) ==
    IF ~AabbHit(obj.bbox, ray, t_min, t_max).some THEN NoneHit
    ELSE LET hit_left == Hit(obj.left, ray, t_min, t_max)
             hit_right == IF hit_left.some
                          THEN Hit(obj.right, ray, t_min, hit_left.t)
                          ELSE Hit(obj.right, ray, t_min, t_max)
         IN IF hit_right.some THEN hit_right
            ELSE IF hit_left.some THEN hit_left
            ELSE NoneHit

\* Hittable::hit, dispatched on the implementing type
Hit(obj, r, t_min, t_max) ==
    CASE obj.kind = "sphere" -> SphereHit(obj, r, t_min, t_max)
      [] obj.kind = "moving_sphere" -> MovingSphereHit(obj, r, t_min, t_max)
      [] obj.kind = "xy_rect" -> XYRectHit(obj, r, t_min, t_max)
      [] obj.kind = "xz_rect" -> XZRectHit(obj, r, t_min, t_max)
      [] obj.kind = "yz_rect" -> YZRectHit(obj, r, t_min, t_max)
      [] obj.kind = "flip_face" -> FlipFaceHit(obj, r, t_min, t_max)
      [] obj.kind = "box" -> BoxInstHit(obj, r, t_min, t_max)
      [] obj.kind = "translate" -> TranslateHit(obj, r, t_min, t_max)
      [] obj.kind = "list" -> HittableListHit(obj, r, t_min, t_max)
      [] obj.kind = "bvh" -> BvhNodeHit(obj, r, t_min, t_max)

\* ---- bounding boxes -----------------------------------------------------
NoneBox == [some |-> FALSE, box |-> AabbDefault]

SomeBox(box) == [some |-> TRUE, box |-> box]

\* SphereBox with the centre as its upper corner
MutSphereBox(center, radius) ==
    Aabb([i \in Axes |-> center[i] - radius], center)

SphereBox(center, radius) ==
    Aabb([i \in Axes |-> center[i] - radius], [i \in Axes |-> center[i] + radius])

RECURSIVE BoundingBox(_, _, _)
RECURSIVE HittableListBoxFrom(_, _, _, _, _)
RECURSIVE MutHittableListBoxFrom(_, _, _, _, _)

\* HittableListBoxFrom keeping the last child's box instead of the surround
MutHittableListBoxFrom(objects, i, t0, t1, acc) ==
    IF i > Len(objects) THEN acc
    ELSE LET aabb == BoundingBox(objects[i], t0, t1)
         IN MutHittableListBoxFrom(objects, i + 1, t0, t1,
                IF aabb.some THEN aabb.box ELSE acc)

\* the fold of HittableList::bounding_box from the i-th object on; objects
\* without a bounding box are skipped
HittableListBoxFrom(objects, i, t0, t1, acc) ==
    IF i > Len(objects) THEN acc
    ELSE LET aabb == BoundingBox(objects[i], t0, t1)
         IN HittableListBoxFrom(objects, i + 1, t0, t1,
                IF aabb.some THEN SurroundingBox(acc, aabb.box) ELSE acc)

\* Hittable::bounding_box, dispatched on the implementing type
BoundingBox(obj, t0, t1) ==
    CASE obj.kind = "sphere" -> SomeBox(SphereBox(obj.center, obj.radius))
      [] obj.kind = "moving_sphere" ->
            SomeBox(SurroundingBox(SphereBox(MovingSphereCenter(obj, t0), obj.radius),
                                   SphereBox(MovingSphereCenter(obj, t1), obj.radius)))
      [] obj.kind = "xy_rect" ->
            SomeBox(Aabb(<<obj.a0, obj.b0, obj.k - RectPad>>, <<obj.a1, obj.b1, obj.k + RectPad>>))
      [] obj.kind = "xz_rect" ->
            SomeBox(Aabb(<<obj.a0, obj.k - RectPad, obj.b0>>, <<obj.a1, obj.k + RectPad, obj.b1>>))
      [] obj.kind = "yz_rect" ->
            SomeBox(Aabb(<<obj.k - RectPad, obj.a0, obj.b0>>, <<obj.k + RectPad, obj.a1, obj.b1>>))
      [] obj.kind = "flip_face" -> BoundingBox(obj.ptr, t0, t1)
      [] obj.kind = "box" -> SomeBox(Aabb(obj.box_min, obj.box_max))
      [] obj.kind = "translate" ->
            LET bbox == BoundingBox(obj.ptr, t0, t1)
            IN IF bbox.some
               THEN SomeBox(Aabb([i \in Axes |-> Add(bbox.box.min[i], obj.offset[i])],
                                 [i \in Axes |-> Add(bbox.box.max[i], obj.offset[i])]))
               ELSE NoneBox
      [] obj.kind = "list" ->
            IF Len(obj.objects) = 0 THEN NoneBox
            ELSE SomeBox(HittableListBoxFrom(obj.objects, 1, t0, t1, AabbDefault))
      [] obj.kind = "constant_medium" -> BoundingBox(obj.boundary, t0, t1)
      [] obj.kind = "bvh" -> SomeBox(obj.bbox)

\* ---- BvhNode construction -----------------------------------------------
\* the construction panicked
BvhPanic == [kind |-> "panic"]

\* BvhNew without the check for a missing bounding box
MutBvhNew(left, right, time0, time1) ==
    IF left = BvhPanic \/ right = BvhPanic THEN BvhPanic
    ELSE [kind |-> "bvh", left |-> left, right |-> right,
          bbox |-> SurroundingBox(BoundingBox(left, time0, time1).box,
                                  BoundingBox(right, time0, time1).box)]

\* split_volumes, lines 82-90: the node of two children, its box the
\* surrounding box of the children's boxes over time0..time1
BvhNew(left, right, time0, time1) ==
    IF left = BvhPanic \/ right = BvhPanic THEN BvhPanic
    ELSE LET box_left == BoundingBox(left, time0, time1)
             box_right == BoundingBox(right, time0, time1)
         IN IF ~box_left.some \/ ~box_right.some THEN BvhPanic
            ELSE [kind |-> "bvh", left |-> left, right |-> right,
                  bbox |-> SurroundingBox(box_left.box, box_right.box)]

\* BoxCompare with Less and Greater exchanged
MutBoxCompare(a, b, axis) ==
    LET box_a == BoundingBox(a, 0, 0)
        box_b == BoundingBox(b, 0, 0)
    IN IF ~box_a.some \/ ~box_b.some THEN "Panic"
       ELSE IF box_a.box.min[axis] < box_b.box.min[axis] THEN "Greater"
       ELSE IF box_a.box.min[axis] > box_b.box.min[axis] THEN "Less"
       ELSE "Equal"

\* BvhNode::box_compare: orders by the lower corner, at time 0, on the axis
BoxCompare(a, b, axis) ==
    LET box_a == BoundingBox(a, 0, 0)
        box_b == BoundingBox(b, 0, 0)
    IN IF ~box_a.some \/ ~box_b.some THEN "Panic"
       ELSE IF box_a.box.min[axis] < box_b.box.min[axis] THEN "Less"
       ELSE IF box_a.box.min[axis] > box_b.box.min[axis] THEN "Greater"
       ELSE "Equal"

\* every order sort_unstable_by(box_compare) may leave the objects in
SortedBy(objects, axis) ==
    LET n == Len(objects)
        perms == {f \in [1..n -> 1..n] : \A i, j \in 1..n : i # j => f[i] # f[j]}
    IN {[i \in 1..n |-> objects[f[i]]] : f \in
          {g \in perms : \A i, j \in 1..n :
              i < j => BoxCompare(objects[g[i]], objects[g[j]], axis) # "Greater"}}

\* BvhNode::split_volumes: every node the random axis choices and the unstable
\* sort can produce, each with the order the slice of objects is left in
RECURSIVE SplitVolumes(_, _, _)
SplitVolumes(objects, time0, time1) ==
    IF Len(objects) = 1
    THEN {[node |-> BvhNew(objects[1], objects[1], time0, time1), objects |-> objects]}
    ELSE IF \E i \in 1..Len(objects) : ~BoundingBox(objects[i], 0, 0).some
    THEN {[node |-> BvhPanic, objects |-> objects]}
    ELSE IF Len(objects) = 2
    THEN {[node |-> IF BoxCompare(objects[1], objects[2], axis) = "Less"
                    THEN BvhNew(objects[1], objects[2], time0, time1)
                    ELSE BvhNew(objects[2], objects[1], time0, time1),
           objects |-> objects] : axis \in Axes}
    ELSE UNION {UNION {
            LET mid == Len(sorted) \div 2
            IN {[node |-> BvhNew(l.node, r.node, time0, time1),
                 objects |-> l.objects \o r.objects] :
                   l \in SplitVolumes(SubSeq(sorted, 1, mid), time0, time1),
                   r \in SplitVolumes(SubSeq(sorted, mid + 1, Len(sorted)), time0, time1)}
            : sorted \in SortedBy(objects, axis)} : axis \in Axes}

\* ---- worlds and rays ----------------------------------------------------
\* worlds with an object that has no bounding box (an empty HittableList, bare
\* or wrapped), alone, with one and with two other objects
BoxlessWorlds ==
    {<<HittableList(<<>>)>>,
     <<Sphere(1, Point3(0, 0, 0), Grid), FlipFace(HittableList(<<>>))>>,
     <<Sphere(1, Point3(0, 0, 0), Grid),
       XYRect(2, -Grid, Grid, -Grid, Grid, -3 * Grid),
       HittableList(<<>>)>>}

\* a translated sphere and a translated rectangle; a sphere and a rectangle
\* through its centre; a list of the unit spheres at (1,1,1) and (2,2,2) and the
\* first of them by itself; a list that holds a sphere and an empty list
MoreWorlds ==
    {<<Translate(Sphere(1, Point3(0, 0, 0), Grid), Point3(0, 0, 5)),
       Translate(XYRect(2, -Grid, Grid, -Grid, Grid, 0), Point3(0, 0, -3))>>,
     <<Sphere(1, Point3(0, 0, 0), Grid),
       XYRect(2, -Grid, Grid, -Grid, Grid, 0)>>,
     <<HittableList(<<Sphere(1, Point3(1, 1, 1), Grid), Sphere(2, Point3(2, 2, 2), Grid)>>),
       Sphere(3, Point3(1, 1, 1), Grid)>>,
     <<HittableList(<<Sphere(1, Point3(1, 1, 1), Grid), HittableList(<<>>)>>)>>}

\* the worlds: a box alone; overlapping spheres and a rectangle; a moving
\* sphere, a sphere, a rectangle and a box; a rectangle, a flipped rectangle
\* and a sphere
Worlds ==
    {<<BoxInst(1, Point3(0, 0, 0), Point3(2, 2, 2))>>,
     <<Sphere(1, Point3(0, 0, 0), Grid),
       Sphere(2, Point3(1, 0, 0), Grid),
       XYRect(3, -Grid, Grid, -Grid, Grid, -3 * Grid)>>,
     <<MovingSphere(1, Point3(0, 0, 0), Point3(0, 2, 0), 0, 1, Grid),
       Sphere(2, Point3(4, 0, 0), Grid),
       XZRect(3, -Grid, 5 * Grid, -Grid, Grid, -2 * Grid),
       BoxInst(4, Point3(3, -1, 2), Point3(5, 1, 4))>>,
     <<YZRect(1, -Grid, Grid, -Grid, Grid, -2 * Grid),
       FlipFace(XYRect(2, -Grid, Grid, -Grid, Grid, 2 * Grid)),
       Sphere(3, Point3(0, 0, 0), Grid)>>}
    \cup BoxlessWorlds
    \cup MoreWorlds

RayOrigins ==
    {Point3(1, 1, 5), Point3(-5, 0, 0), Point3(0, 0, 5), Point3(0, 5, 0),
     Point3(4, 0, -5), Point3(0, 0, 0), Point3(-5, 0, -3)}

RayDirections ==
    {<<1, 0, 0>>, <<-1, 0, 0>>, <<0, 1, 0>>, <<0, -1, 0>>, <<0, 0, 1>>, <<0, 0, -1>>}

Rays == [o : RayOrigins, d : RayDirections, time : Times]

TMins == {TMin, 0}

TMaxs == {PInf, 3 * Grid, 5 * Grid}

NoRay == [o |-> <<0, 0, 0>>, d |-> <<0, 0, 0>>, time |-> 0]

BvhIdle ==
    /\ bvhPhase = "idle"
    /\ worldObjects = <<>>
    /\ bvhRoot = BvhPanic
    /\ qRay = NoRay
    /\ qTMin = 0
    /\ qTMax = 0
    /\ bvhResult = NoneHit
    /\ listResult = NoneHit
    /\ objHits = <<>>

\* a scene function has filled the world's HittableList
BvhInit ==
    /\ bvhPhase = "list"
    /\ worldObjects \in Worlds
    /\ bvhRoot = BvhPanic
    /\ qRay = NoRay
    /\ qTMin = 0
    /\ qTMax = 0
    /\ bvhResult = NoneHit
    /\ listResult = NoneHit
    /\ objHits = <<>>

\* render, line 95: BvhNode::from(&mut world, 0.0, 1.0); the sort reorders
\* the world's objects in place
BvhFrom ==
    /\ bvhPhase = "list"
    /\ \E built \in SplitVolumes(worldObjects, 0, 1) :
          /\ bvhRoot' = built.node
          /\ worldObjects' = built.objects
          /\ bvhPhase' = IF built.node = BvhPanic THEN "panicked" ELSE "built"
    /\ UNCHANGED <<qRay, qTMin, qTMax, bvhResult, listResult, objHits>>

\* a hit query, answered by the BvhNode and by the HittableList of the same
\* objects
HitQuery ==
    /\ bvhPhase = "built"
    /\ bvhRoot # BvhPanic
    /\ \E r \in Rays, t_min \in TMins, t_max \in TMaxs :
          /\ qRay' = r
          /\ qTMin' = t_min
          /\ qTMax' = t_max
          /\ bvhResult' = Hit(bvhRoot, r, t_min, t_max)
          /\ listResult' = Hit(HittableList(worldObjects), r, t_min, t_max)
          /\ objHits' = [i \in 1..Len(worldObjects) |-> Hit(worldObjects[i], r, t_min, t_max)]
    /\ bvhPhase' = "queried"
    /\ UNCHANGED <<worldObjects, bvhRoot>>

\* the caller has used the hit record; the next ray can be traced
HitDone ==
    /\ bvhPhase = "queried"
    /\ bvhPhase' = "built"
    /\ qRay' = NoRay
    /\ qTMin' = 0
    /\ qTMax' = 0
    /\ bvhResult' = NoneHit
    /\ listResult' = NoneHit
    /\ objHits' = <<>>
    /\ UNCHANGED <<worldObjects, bvhRoot>>

BvhNext ==
    \/ BvhFrom
    \/ HitQuery
    \/ HitDone

(***************************************************************************)
(* The camera's view of a scanline, and ppm::write_file.                   *)
(***************************************************************************)
\* render_scanline, line 160: v = (row + U) / (image_height - 1) for the value
\* U = x / RngMod drawn, in units of 1 / (RngMod * (image_height - 1))
SampleV(row, x) == row * RngMod + x

\* Camera::get_ray(s, t): how far above the lower edge of the viewport the point
\* lower_left_corner + s * horizontal + t * vertical lies, `vertical` being the
\* camera's up vector times the viewport height; in units of
\* viewport height / (RngMod * (image_height - 1))
GetRayHeight(t) == t

\* the scanline and the value drawn that PixelColor made a color from
ScanlineOf(color) == color[1] - 1
DrawnOf(color) == color[3]

\* MAX_RGB_COLOR
MaxRgbColor == 255

\* f64 as u8: saturating
AsU8(x) == IF x < 0 THEN 0 ELSE IF x > 255 THEN 255 ELSE x

\* the scale of the colors in the slice (any Color may be passed): 1, or 100
\* so that some components exceed 255
PpmScales == {1, 100}

\* the `image` slices passed for ImageWidth x ImageHeight: the pixel at i is
\* the color of scanline (i - 1) \div ImageWidth, scaled, the values drawn
\* following a pattern
PpmImages ==
    {[i \in 1..(ImageWidth * ImageHeight) |->
         LET color == PixelColor((i - 1) \div ImageWidth, (i - 1) % ImageWidth,
                                 ((i - 1) * a + b) % RngMod)
         IN <<color[1] * k, color[2] * k, color[3] * k>>] :
       a \in 0..1, b \in 0..(RngMod - 1), k \in PpmScales}

PpmLine(tag, a, b, c) == [tag |-> tag, a |-> a, b |-> b, c |-> c]

\* format!("{} {} {}\n", color.x() as u8, color.y() as u8, color.z() as u8)
RgbLine(color) == PpmLine("rgb", AsU8(color[1]), AsU8(color[2]), AsU8(color[3]))

\* write_file's index without the reversal of the rows
MutPixelIndex(r, c, width, height) == r * width + c

\* write_file, line 26: ((height - 1 - r) * width + c)
PixelIndex(r, c, width, height) == (height - 1 - r) * width + c

PpmIdle ==
    /\ ppmPc = "idle"
    /\ ppmImage = <<>>
    /\ ppmLines = <<>>
    /\ ppmR = 0
    /\ ppmC = 0
    /\ ppmRead = <<>>

\* write_file is called with the buffer render returned and its dimensions
PpmInit ==
    /\ ppmPc = "create"
    /\ ppmImage \in PpmImages
    /\ ppmLines = <<>>
    /\ ppmR = 0
    /\ ppmC = 0
    /\ ppmRead = <<>>

\* File::create(file_path)?
PpmCreate ==
    /\ ppmPc = "create"
    /\ ppmPc' = "magic"
    /\ UNCHANGED <<ppmImage, ppmLines, ppmR, ppmC, ppmRead>>

\* writer.write_all(b"P3\n")?
PpmWriteMagic ==
    /\ ppmPc = "magic"
    /\ ppmLines' = Append(ppmLines, PpmLine("P3", 0, 0, 0))
    /\ ppmPc' = "size"
    /\ UNCHANGED <<ppmImage, ppmR, ppmC, ppmRead>>

\* writer.write_all(format!("{} {}\n", width, height))?
PpmWriteSize ==
    /\ ppmPc = "size"
    /\ ppmLines' = Append(ppmLines, PpmLine("size", ImageWidth, ImageHeight, 0))
    /\ ppmPc' = "max"
    /\ UNCHANGED <<ppmImage, ppmR, ppmC, ppmRead>>

\* writer.write_all(format!("{}\n", MAX_RGB_COLOR))?
PpmWriteMax ==
    /\ ppmPc = "max"
    /\ ppmLines' = Append(ppmLines, PpmLine("max", MaxRgbColor, 0, 0))
    /\ ppmPc' = "pixels"
    /\ UNCHANGED <<ppmImage, ppmR, ppmC, ppmRead>>

\* one iteration of the inner loop, lines 25-36
PpmWritePixel ==
    /\ ppmPc = "pixels"
    /\ ppmR < ImageHeight
    /\ LET idx == PixelIndex(ppmR, ppmC, ImageWidth, ImageHeight)
       IN /\ ppmLines' = Append(ppmLines, RgbLine(ppmImage[idx + 1]))
          /\ ppmRead' = Append(ppmRead, idx + 1)
    /\ IF ppmC + 1 < ImageWidth
       THEN ppmC' = ppmC + 1 /\ ppmR' = ppmR
       ELSE ppmC' = 0 /\ ppmR' = ppmR + 1
    /\ UNCHANGED <<ppmPc, ppmImage>>

\* the loops are over: Ok(())
PpmOk ==
    /\ ppmPc = "pixels"
    /\ ppmR = ImageHeight
    /\ ppmPc' = "done"
    /\ UNCHANGED <<ppmImage, ppmLines, ppmR, ppmC, ppmRead>>

\* File::create or a write_all fails: `?` returns the error
PpmError ==
    /\ ppmPc \in {"create", "magic", "size", "max"} \/ (ppmPc = "pixels" /\ ppmR < ImageHeight)
    /\ ppmPc' = "error"
    /\ UNCHANGED <<ppmImage, ppmLines, ppmR, ppmC, ppmRead>>

PpmNext ==
    \/ PpmCreate
    \/ PpmWriteMagic
    \/ PpmWriteSize
    \/ PpmWriteMax
    \/ PpmWritePixel
    \/ PpmOk
    \/ PpmError

(***************************************************************************)
(* Renderer::multi_sample and the cast to a byte in write_file.            *)
(*                                                                         *)
(* A color sum is in units of 0.000001 and is N times the square of a      *)
(* multiple of 0.001, so that the division by N and the square root are    *)
(* exact; the square root and what follows it are in units of 0.001.       *)
(***************************************************************************)
\* the largest samples_per_pixel tried
MaxSamples == 3

\* the largest square root tried, in units of 0.001
MaxRoot == 2000

\* the upper bound multi_sample clamps to: 0.999
ClampMax == 999

\* the square roots of the per-sample means tried
ToneRoots == {0, 1, 500, ClampMax, ClampMax + 1, MaxRoot}

\* the channels of a color sum over n samples: finite and non-negative, +inf,
\* and (outside what a sum of radiances should be) negative and NaN
ToneChannels(n) == {n * s * s : s \in ToneRoots} \cup {PInf, -n * 250000, NaN}

\* scale * r with scale = 1.0 / samples_per_pixel
ScaleBy(r, n) == IF IsNaN(r) \/ IsInf(r) THEN r ELSE r \div n

\* f64::sqrt: NaN for a negative operand
FSqrt(x) ==
    IF IsNaN(x) \/ Lt(x, 0) THEN NaN
    ELSE IF x = PInf THEN PInf
    ELSE CHOOSE k \in 0..MaxRoot : k * k = x

\* a clamp that lets large values through
MutClamp(x, min, max) == IF Lt(x, min) THEN min ELSE x

\* common::clamp
Clamp(x, min, max) ==
    IF Lt(x, min) THEN min
    ELSE IF Gt(x, max) THEN max
    ELSE x

\* 256.0 * x
Times256(x) == IF IsNaN(x) THEN NaN ELSE IF IsInf(x) THEN x ELSE 256 * x

\* one channel of multi_sample
MultiSampleChannel(c, samples_per_pixel) ==
    Times256(Clamp(FSqrt(ScaleBy(c, samples_per_pixel)), 0, ClampMax))

\* f64 as u8 on a value in units of 0.001: truncates, saturates, 0 for NaN
F64AsU8(x) == IF IsNaN(x) THEN 0 ELSE AsU8(x \div 1000)

ToneIdle ==
    /\ tonePc = "idle"
    /\ toneSum = <<>>
    /\ toneN = 0
    /\ toneClamps = <<>>
    /\ toneColor = <<>>
    /\ toneBytes = <<>>

\* render_scanline has summed samples_per_pixel samples of ray_color
ToneInit ==
    /\ tonePc = "sum"
    /\ toneN \in 1..MaxSamples
    /\ toneSum \in [1..3 -> ToneChannels(toneN)]
    /\ toneClamps = <<>>
    /\ toneColor = <<>>
    /\ toneBytes = <<>>

\* Renderer::multi_sample(&pixel_color, self.samples_per_pixel)
MultiSample ==
    /\ tonePc = "sum"
    /\ toneClamps' = [i \in 1..3 |->
                         LET x == FSqrt(ScaleBy(toneSum[i], toneN))
                         IN [x |-> x, min |-> 0, max |-> ClampMax,
                             result |-> Clamp(x, 0, ClampMax)]]
    /\ toneColor' = [i \in 1..3 |-> MultiSampleChannel(toneSum[i], toneN)]
    /\ tonePc' = "mapped"
    /\ UNCHANGED <<toneSum, toneN, toneBytes>>

\* write_file: color.x() as u8, color.y() as u8, color.z() as u8
ToneWrite ==
    /\ tonePc = "mapped"
    /\ toneBytes' = [i \in 1..3 |-> F64AsU8(toneColor[i])]
    /\ tonePc' = "written"
    /\ UNCHANGED <<toneSum, toneN, toneClamps, toneColor>>

ToneNext ==
    \/ MultiSample
    \/ ToneWrite

(***************************************************************************)
(* main and Command::new.                                                  *)
(*                                                                         *)
(* An argument is a string; parse::<u32> and parse::<f64> are tables over  *)
(* the value strings tried. An f64 read from the command line is a pair    *)
(* <<numerator, denominator>>.                                             *)
(***************************************************************************)
\* the longest argument list tried, the program's name not counted
MaxArgs == 3

\* VALID_SWITCHES
ValidSwitches == {"-h", "--help", "-a", "-p", "-s", "-w"}

\* the arguments tried: the switches, an unknown switch, and values
SwitchArgs == {"-w", "-a", "-p", "-s", "-h", "-x"}
ValueArgs == {"0", "1", "7", "1.5", "abc"}
ArgLists ==
    UNION {[1..n -> SwitchArgs \cup ValueArgs] : n \in 0..MaxArgs}

\* s.starts_with('-')
StartsWithDash(s) == s \in SwitchArgs

ParseOk(v) == [ok |-> TRUE, v |-> v]
ParseErr == [ok |-> FALSE, v |-> 0]

\* str::parse::<u32>
ParseU32(s) ==
    CASE s = "0" -> ParseOk(0)
      [] s = "1" -> ParseOk(1)
      [] s = "7" -> ParseOk(7)
      [] OTHER -> ParseErr

\* str::parse::<f64>
ParseF64(s) ==
    CASE s = "0" -> ParseOk(<<0, 1>>)
      [] s = "1" -> ParseOk(<<1, 1>>)
      [] s = "7" -> ParseOk(<<7, 1>>)
      [] s = "1.5" -> ParseOk(<<3, 2>>)
      [] OTHER -> ParseErr

\* the scenes by number, 1..=6, as SCENE_HELP lists them
MapToScene(num) ==
    CASE num = 1 -> ParseOk("RandomSpheres")
      [] num = 2 -> ParseOk("PerlinSpheres")
      [] num = 3 -> ParseOk("Earth")
      [] num = 4 -> ParseOk("CornellBox")
      [] num = 5 -> ParseOk("CornellSmokeBoxes")
      [] num = 6 -> ParseOk("Final")
      [] OTHER -> ParseErr

\* the defaults of impl Default for Command
DefaultWidth == 1024
DefaultSamples == 500
DefaultAspectRatio == <<16, 9>>

\* Command::default()
CommandDefault ==
    [ok |-> TRUE, err |-> "", aspect_ratio |-> DefaultAspectRatio, width |-> DefaultWidth,
     samples_per_pixel |-> DefaultSamples, scene |-> "CornellBox"]

\* Err(message)
CommandErr(msg) ==
    [ok |-> FALSE, err |-> msg, aspect_ratio |-> <<0, 1>>, width |-> 0,
     samples_per_pixel |-> 0, scene |-> ""]

\* args.iter().position(|e| e == sw): 0 stands for None
Position(args, sw) ==
    IF \E i \in 1..Len(args) : args[i] = sw
    THEN CHOOSE i \in 1..Len(args) : args[i] = sw /\ \A j \in 1..(i - 1) : args[j] # sw
    ELSE 0

NoOption == [some |-> FALSE, ok |-> TRUE, v |-> 0, err |-> ""]
SomeOk(v) == [some |-> TRUE, ok |-> TRUE, v |-> v, err |-> ""]
SomeErr(msg) == [some |-> TRUE, ok |-> FALSE, v |-> 0, err |-> msg]

\* Command::parse_aspect_ratio
ParseAspectRatio(args) ==
    LET idx == Position(args, "-a")
    IN IF idx = 0 THEN NoOption
       ELSE IF idx + 1 > Len(args) THEN SomeErr("aspect ratio value missing")
       ELSE LET ratio == ParseF64(args[idx + 1])
            IN IF ratio.ok /\ ratio.v[1] > ratio.v[2]
               THEN SomeOk(ratio.v)
               ELSE SomeErr("ASPECT_HELP")

\* Command::parse_width
ParseWidth(args) ==
    LET idx == Position(args, "-w")
    IN IF idx = 0 THEN NoOption
       ELSE IF idx + 1 > Len(args) THEN SomeErr("width value missing")
       ELSE LET width == ParseU32(args[idx + 1])
            IN IF width.ok /\ width.v > 0
               THEN SomeOk(width.v)
               ELSE SomeErr("width must be an integer > 0")

\* Command::parse_samples_per_pixel
ParseSamplesPerPixel(args) ==
    LET idx == Position(args, "-p")
    IN IF idx = 0 THEN NoOption
       ELSE IF idx + 1 > Len(args) THEN SomeErr("samples per pixel missing")
       ELSE LET spp == ParseU32(args[idx + 1])
            IN IF spp.ok
               THEN SomeOk(spp.v)
               ELSE SomeErr("samples per pixel must be an integer > 0")

\* Command::parse_scene_num
ParseSceneNum(args) ==
    LET idx == Position(args, "-s")
    IN IF idx = 0 THEN SomeOk("Final")
       ELSE IF idx + 1 > Len(args) THEN SomeErr("SCENE_HELP")
       ELSE LET num == ParseU32(args[idx + 1])
            IN IF num.ok
               THEN (IF MapToScene(num.v).ok THEN SomeOk(MapToScene(num.v).v)
                     ELSE SomeErr("SCENE_HELP"))
               ELSE SomeErr("samples per pixel must be an integer > 0")

\* Command::validate_switches: TRUE for Ok
ValidateSwitches(args) ==
    \A i \in 1..Len(args) : StartsWithDash(args[i]) => args[i] \in ValidSwitches

\* Command::new
CommandNew(args) ==
    LET width == ParseWidth(args)
        ratio == ParseAspectRatio(args)
        spp == ParseSamplesPerPixel(args)
        scene == ParseSceneNum(args)
    IN IF Len(args) = 1 THEN CommandDefault
       ELSE IF ~ValidateSwitches(args) THEN CommandErr("is not a valid option")
       ELSE IF \E i \in 1..Len(args) : args[i] \in {"-h", "--help"} THEN CommandErr("HELP")
       ELSE IF width.some /\ ~width.ok THEN CommandErr(width.err)
       ELSE IF ratio.some /\ ~ratio.ok THEN CommandErr(ratio.err)
       ELSE IF spp.some /\ ~spp.ok THEN CommandErr(spp.err)
       ELSE IF ~scene.ok THEN CommandErr(scene.err)
       ELSE [ok |-> TRUE, err |-> "",
             aspect_ratio |-> IF ratio.some THEN ratio.v ELSE DefaultAspectRatio,
             width |-> IF width.some THEN width.v ELSE DefaultWidth,
             samples_per_pixel |-> IF spp.some THEN spp.v ELSE DefaultSamples,
             scene |-> scene.v]

MainIdle ==
    /\ mainPc = "idle"
    /\ mainArgs = <<>>
    /\ mainCommand = CommandErr("")
    /\ mainStderr = <<>>
    /\ mainRendered = FALSE
    /\ mainWrite = "none"
    /\ mainExit = <<>>

\* the process starts: env::args() is the program's name and the arguments
MainInit ==
    /\ mainPc = "start"
    /\ mainArgs \in {<<"raytracer">> \o a : a \in ArgLists}
    /\ mainCommand = CommandErr("")
    /\ mainStderr = <<>>
    /\ mainRendered = FALSE
    /\ mainWrite = "none"
    /\ mainExit = <<>>

\* main, lines 13-18: Command::new(args).unwrap_or_else(.. process::exit(1))
MainParse ==
    /\ mainPc = "start"
    /\ mainCommand' = CommandNew(mainArgs)
    /\ IF mainCommand'.ok
       THEN /\ mainPc' = "parsed"
            /\ UNCHANGED <<mainStderr, mainExit>>
       ELSE /\ mainStderr' = Append(mainStderr, "Problem parsing arguments")
            /\ mainExit' = <<1>>
            /\ mainPc' = "exited"
    /\ UNCHANGED <<mainArgs, mainRendered, mainWrite>>

\* main, lines 20-79: the scene is built and rendered
MainRender ==
    /\ mainPc = "parsed"
    /\ mainRendered' = TRUE
    /\ mainPc' = "rendered"
    /\ UNCHANGED <<mainArgs, mainCommand, mainStderr, mainWrite, mainExit>>

\* main, lines 83-88: ppm::write_file returns Ok(()) or an io::Error
MainWriteFile ==
    /\ mainPc = "rendered"
    /\ \E outcome \in {"ok", "err"} :
          /\ mainWrite' = outcome
          /\ mainStderr' = IF outcome = "err" THEN Append(mainStderr, "io::Error")
                           ELSE mainStderr
    /\ mainPc' = "written"
    /\ UNCHANGED <<mainArgs, mainCommand, mainRendered, mainExit>>

\* main returns: the process exits with code 0
MainReturn ==
    /\ mainPc = "written"
    /\ mainExit' = <<0>>
    /\ mainPc' = "exited"
    /\ UNCHANGED <<mainArgs, mainCommand, mainStderr, mainRendered, mainWrite>>

MainNext ==
    \/ MainParse
    \/ MainRender
    \/ MainWriteFile
    \/ MainReturn

(***************************************************************************)
(* The directions the materials scatter into.                              *)
(*                                                                         *)
(* A vector component is an integer in units of 1/One. Normals and         *)
(* incoming directions are the six axis directions, and the random draws   *)
(* are taken from values for which every product and root is exact.        *)
(***************************************************************************)
\* 1.0
One == 200

UnitVectors ==
    {<<One, 0, 0>>, <<-One, 0, 0>>, <<0, One, 0>>, <<0, -One, 0>>, <<0, 0, One>>, <<0, 0, -One>>}

VAdd(u, v) == [i \in Axes |-> u[i] + v[i]]
VSub(u, v) == [i \in Axes |-> u[i] - v[i]]
\* the vector v times the number k
VScale(k, v) == [i \in Axes |-> (k * v[i]) \div One]
VDot(u, v) == (u[1] * v[1] + u[2] * v[2] + u[3] * v[3]) \div One
LengthSquared(v) == VDot(v, v)

\* f64::sqrt of a number of 0..1 with an exact root
SqrtOne(x) == CHOOSE k \in 0..One : k * k = x * One

\* the angles a drawn by random_unit_vector, as [cos, sin]: 0 and atan(4/3)
Angles == {[cos |-> One, sin |-> 0], [cos |-> (3 * One) \div 5, sin |-> (4 * One) \div 5]}

\* the values z drawn from -1.0..1.0 by random_unit_vector: -1.0 (the lower end
\* of the range, which gen_range includes), 0.0 and 0.6
ZDraws == {-One, 0, (3 * One) \div 5}

\* Vec3::random_unit_vector for the draws a and z
RandomUnitVector(a, z) ==
    LET r == SqrtOne(One - (z * z) \div One)
    IN <<(r * a.cos) \div One, (r * a.sin) \div One, z>>

\* the values random_range(-1.0, 1.0) draws for a component: -0.75, 0.0, 0.5
ComponentDraws == {-(3 * One) \div 4, 0, One \div 2}

\* Vec3::random_in_unit_sphere: the loop returns the first point drawn whose
\* length_squared is below 1.0
RandomInUnitSphere ==
    {p \in [Axes -> ComponentDraws] : LengthSquared(p) < One}

\* material::reflect
Reflect(v, n) == VSub(v, VScale(2 * VDot(v, n), n))

\* material::refract; etai_over_etat is a fraction <<numerator, denominator>>
Refract(uv, n, etai_over_etat) ==
    LET cos_theta == VDot([i \in Axes |-> -uv[i]], n)
        sum == VAdd(uv, VScale(cos_theta, n))
        r_out_parallel == [i \in Axes |-> (etai_over_etat[1] * sum[i]) \div etai_over_etat[2]]
        r_out_perp == VScale(-SqrtOne(One - LengthSquared(r_out_parallel)), n)
    IN VAdd(r_out_parallel, r_out_perp)

\* material::schlick for a cosine of 0.0 or 1.0
Schlick(cosine, ref_idx) ==
    LET r0 == ((ref_idx[2] - ref_idx[1]) * One) \div (ref_idx[2] + ref_idx[1])
        r0sq == (r0 * r0) \div One
        pow5 == IF cosine = One THEN 0 ELSE One
    IN r0sq + ((One - r0sq) * pow5) \div One

NoDirection == [some |-> FALSE, direction |-> <<0, 0, 0>>]
SomeDirection(d) == [some |-> TRUE, direction |-> d]

\* Lambertian::scatter: the directions of `scattered`
LambertianDirections(normal) ==
    {SomeDirection(VAdd(normal, RandomUnitVector(a, z))) : a \in Angles, z \in ZDraws}

\* Metal::scatter
MetalDirections(fuzz, r_in, normal) ==
    {LET reflected == Reflect(r_in, normal)
         direction == VAdd(reflected, VScale(fuzz, p))
     IN IF VDot(direction, normal) > 0 THEN SomeDirection(direction) ELSE NoDirection :
        p \in RandomInUnitSphere}

\* Isotropic::scatter
IsotropicDirections == {SomeDirection(p) : p \in RandomInUnitSphere}

\* the values rng.gen::<f64>() draws in Dielectric::scatter: 0.0, 0.5
UnitDraws == {0, One \div 2}

\* Dielectric::scatter
DielectricDirections(ref_idx, r_in, normal, front_face) ==
    LET etai_over_etat == IF front_face THEN <<ref_idx[2], ref_idx[1]>> ELSE ref_idx
        unit_direction == r_in
        dot == VDot([i \in Axes |-> -unit_direction[i]], normal)
        cos_theta == IF dot < One THEN dot ELSE One
        sin_theta == SqrtOne(One - (cos_theta * cos_theta) \div One)
    IN IF etai_over_etat[1] * sin_theta > etai_over_etat[2] * One
       THEN {SomeDirection(Reflect(unit_direction, normal))}
       ELSE {IF u < Schlick(cos_theta, etai_over_etat)
             THEN SomeDirection(Reflect(unit_direction, normal))
             ELSE SomeDirection(Refract(unit_direction, normal, etai_over_etat)) :
                u \in UnitDraws}

\* the materials of the scenes: Metal with fuzz 0.0, 0.5 and 1.0, glass of
\* refractive index 1.5
ScatterMaterials ==
    {[kind |-> "lambertian", fuzz |-> 0, ref_idx |-> <<1, 1>>],
     [kind |-> "isotropic", fuzz |-> 0, ref_idx |-> <<1, 1>>],
     [kind |-> "dielectric", fuzz |-> 0, ref_idx |-> <<3, 2>>]}
    \cup {[kind |-> "metal", fuzz |-> f, ref_idx |-> <<1, 1>>] : f \in {0, One \div 2, One}}

ScatterIdle ==
    /\ scPc = "idle"
    /\ scMat = [kind |-> "none", fuzz |-> 0, ref_idx |-> <<1, 1>>]
    /\ scIn = <<0, 0, 0>>
    /\ scNormal = <<0, 0, 0>>
    /\ scFront = FALSE
    /\ scOut = NoDirection

\* ray_color has a hit: a unit normal that does not point along the ray
ScatterInit ==
    /\ scPc = "hit"
    /\ scMat \in ScatterMaterials
    /\ scIn \in UnitVectors
    /\ scNormal \in {n \in UnitVectors : VDot(scIn, n) <= 0}
    /\ scFront \in BOOLEAN
    /\ scOut = NoDirection

ScatterReturns(outcomes) ==
    /\ scPc = "hit"
    /\ scOut' \in outcomes
    /\ scPc' = "scattered"
    /\ UNCHANGED <<scMat, scIn, scNormal, scFront>>

LambertianScatterCall ==
    /\ scMat.kind = "lambertian"
    /\ ScatterReturns(LambertianDirections(scNormal))

MetalScatterCall ==
    /\ scMat.kind = "metal"
    /\ ScatterReturns(MetalDirections(scMat.fuzz, scIn, scNormal))

IsotropicScatterCall ==
    /\ scMat.kind = "isotropic"
    /\ ScatterReturns(IsotropicDirections)

DielectricScatterCall ==
    /\ scMat.kind = "dielectric"
    /\ ScatterReturns(DielectricDirections(scMat.ref_idx, scIn, scNormal, scFront))

ScatterNext ==
    \/ LambertianScatterCall
    \/ MetalScatterCall
    \/ IsotropicScatterCall
    \/ DielectricScatterCall

(***************************************************************************)
(* ImageTexture::value. The coordinates u and v are in units of 1/One; a   *)
(* byte of the data holds its own offset, so that a color tells which      *)
(* bytes were read.                                                        *)
(***************************************************************************)
\* the largest texture tried
MaxTexWidth == 2
MaxTexHeight == 3

\* BYTES_PER_PIXEL
BytesPerPixel == 3

\* the textures: ImageTexture::default(), and those ImageTexture::from builds,
\* whose data holds width * height RGB pixels
ImageTextures ==
    {[data |-> <<>>, width |-> 0, height |-> 0, bytes_per_scanline |-> 0]}
    \cup {[data |-> [k \in 1..(w * h * BytesPerPixel) |-> k - 1], width |-> w, height |-> h,
           bytes_per_scanline |-> w * BytesPerPixel] : w \in 1..MaxTexWidth, h \in 1..MaxTexHeight}

\* the texture coordinates tried, inside and outside 0.0..1.0
TexCoords ==
    {NInf, -(One \div 2), 0, One \div 4, One \div 2, One - 1, One, (3 * One) \div 2, PInf, NaN}

\* x * n for an integer n > 0
TimesInt(x, n) == IF IsNaN(x) \/ IsInf(x) THEN x ELSE x * n

\* f64 as usize: the integer part, 0 for NaN and for a negative number
AsUsize(x) == IF IsNaN(x) \/ x < 0 THEN 0 ELSE x \div One

\* the texel column without the test against the width
MutTexelI(u, width) == AsUsize(TimesInt(Clamp(u, 0, One), width))

\* value, lines 44 and 47-55
TexelI(u, width) ==
    LET i == AsUsize(TimesInt(Clamp(u, 0, One), width))
    IN IF i >= width THEN width - 1 ELSE i

\* value, lines 45 and 56-64
TexelJ(v, height) ==
    LET j == AsUsize(TimesInt(Sub(One, Clamp(v, 0, One)), height))
    IN IF j >= height THEN height - 1 ELSE j

\* the sentinel color of a texture without data: cyan
Cyan == <<0, 255, 255>>

TexIdle ==
    /\ texPc = "idle"
    /\ texture = [data |-> <<>>, width |-> 0, height |-> 0, bytes_per_scanline |-> 0]
    /\ texU = 0
    /\ texV = 0
    /\ texRead = <<>>
    /\ texColor = <<>>

\* a hit on a surface textured with an image: value(rec.u, rec.v, &rec.p)
TexInit ==
    /\ texPc = "call"
    /\ texture \in ImageTextures
    /\ texU \in TexCoords
    /\ texV \in TexCoords
    /\ texRead = <<>>
    /\ texColor = <<>>

\* ImageTexture::value; a slice that reaches past the data panics. The color
\* is in units of COLOR_SCALE
ImageTextureValue ==
    /\ texPc = "call"
    /\ IF Len(texture.data) = 0
       THEN /\ texColor' = Cyan
            /\ texRead' = <<>>
            /\ texPc' = "returned"
       ELSE LET i == TexelI(texU, texture.width)
                j == TexelJ(texV, texture.height)
                idx == j * texture.bytes_per_scanline + i * BytesPerPixel
            IN /\ texRead' = <<idx, idx + 1, idx + 2>>
               /\ IF idx + 3 <= Len(texture.data)
                  THEN /\ texColor' = [k \in 1..3 |-> texture.data[idx + k]]
                       /\ texPc' = "returned"
                  ELSE /\ texColor' = <<>>
                       /\ texPc' = "panicked"
    /\ UNCHANGED <<texture, texU, texV>>

TexNext == ImageTextureValue

(***************************************************************************)
(* ConstantMedium, and the BVH leaf over a single object.                  *)
(*                                                                         *)
(* hit_distance = neg_inv_density * ln(U) for the U of 0.0..1.0 drawn is a *)
(* positive number or +inf; a call is given the hit_distance it draws.     *)
(***************************************************************************)
ConstantMedium(id, boundary) == [kind |-> "constant_medium", id |-> id, boundary |-> boundary]

\* the hit distances drawn: 0.5, 1.5 and +inf (for U = 0.0)
HitDistances == {Grid \div 2, Grid + Grid \div 2, PInf}

\* ConstantMedium::hit for a ray whose direction has length 1.0
ConstantMediumHit(obj, r, t_min, t_max, hit_distance) ==
    LET rec1 == Hit(obj.boundary, r, NInf, PInf)
        rec2 == Hit(obj.boundary, r, Add(rec1.t, 1), PInf)
        t1 == IF Lt(rec1.t, t_min) THEN t_min ELSE rec1.t
        t2 == IF Gt(rec2.t, t_max) THEN t_max ELSE rec2.t
        t1z == IF Lt(t1, 0) THEN 0 ELSE t1
        distance_inside_boundary == Sub(t2, t1z)
        t == Add(t1z, hit_distance)
    IN IF ~rec1.some THEN NoneHit
       ELSE IF ~rec2.some THEN NoneHit
       ELSE IF Ge(t1, t2) THEN NoneHit
       ELSE IF Gt(hit_distance, distance_inside_boundary) THEN NoneHit
       ELSE [some |-> TRUE, p |-> RayAt(r, t), normal |-> <<1, 0, 0>>, id |-> obj.id, t |-> t,
             u |-> rec1.u, v |-> rec1.v, front_face |-> TRUE]

\* x.hit for an object that may be a ConstantMedium
HitWith(x, r, t_min, t_max, hit_distance) ==
    IF x.kind = "constant_medium"
    THEN ConstantMediumHit(x, r, t_min, t_max, hit_distance)
    ELSE Hit(x, r, t_min, t_max)

\* the objects: a sphere and a box of smoke, a sphere, a rectangle
MediumObjects ==
    {ConstantMedium(9, Sphere(1, Point3(0, 0, 0), Grid)),
     ConstantMedium(9, BoxInst(1, Point3(-1, -1, -1), Point3(1, 1, 1))),
     Sphere(1, Point3(0, 0, 0), Grid),
     XYRect(1, -Grid, Grid, -Grid, Grid, 0)}

\* rays from outside, from inside and from the plane of a side of the boundaries
MediumRays ==
    [o : {Point3(1, 1, 5), Point3(-5, 0, 0), Point3(0, 0, 0)}, d : RayDirections, time : {0}]

MediumIdle ==
    /\ cmPc = "idle"
    /\ cmX = Sphere(0, Point3(0, 0, 0), Grid)
    /\ cmRay = NoRay
    /\ cmTMin = 0
    /\ cmTMax = 0
    /\ cmDraws = <<0, 0>>
    /\ cmDirect = NoneHit
    /\ cmLeft = NoneHit
    /\ cmLeaf = NoneHit

\* a ray is about to be tested against the object x
MediumInit ==
    /\ cmPc = "query"
    /\ cmX \in MediumObjects
    /\ cmRay \in MediumRays
    /\ cmTMin \in TMins
    /\ cmTMax \in TMaxs
    /\ cmDraws \in HitDistances \X HitDistances
    /\ cmDirect = NoneHit
    /\ cmLeft = NoneHit
    /\ cmLeaf = NoneHit

\* x.hit: called once by itself (query), then by the leaf for its left child
\* and for its right child, each call of a ConstantMedium drawing its own
\* hit distance; BvhNode::hit, lines 130-143, takes the right hit if there is
\* one, else the left one
XHit ==
    /\ cmPc \in {"query", "left", "right"}
    /\ LET t_max == IF cmPc = "right" /\ cmLeft.some THEN cmLeft.t ELSE cmTMax
           draw == IF cmPc = "right" THEN cmDraws[2] ELSE cmDraws[1]
       IN \E rec \in {HitWith(cmX, cmRay, cmTMin, t_max, draw)} :
             /\ cmDirect' = IF cmPc = "query" THEN rec ELSE cmDirect
             /\ cmLeft' = IF cmPc = "left" THEN rec ELSE cmLeft
             /\ cmLeaf' = IF cmPc # "right" THEN cmLeaf
                          ELSE IF rec.some THEN rec
                          ELSE IF cmLeft.some THEN cmLeft
                          ELSE NoneHit
    /\ cmPc' = CASE cmPc = "query" -> "direct"
                 [] cmPc = "left" -> "right"
                 [] cmPc = "right" -> "leaf"
    /\ UNCHANGED <<cmX, cmRay, cmTMin, cmTMax, cmDraws>>

\* the same query on the BvhNode split_volumes builds from the one-element
\* list [x]: BvhNode::hit, line 126, returns None when the ray misses the
\* node's box and queries the left child otherwise
LeafEnter ==
    /\ cmPc = "direct"
    /\ cmPc' = IF AabbHit(BvhNew(cmX, cmX, 0, 1).bbox, cmRay, cmTMin, cmTMax).some
               THEN "left" ELSE "leaf"
    /\ UNCHANGED <<cmX, cmRay, cmTMin, cmTMax, cmDraws, cmDirect, cmLeft, cmLeaf>>

MediumNext ==
    \/ XHit
    \/ LeafEnter

(***************************************************************************)
(* BvhNode::split_volumes, call by call: the stack of its activations.     *)
(***************************************************************************)
\* the frames the thread's stack has room for
MaxCallDepth == 4

\* the lists render may be given: the worlds, and a world without objects
BuildLists == Worlds \cup {<<>>}

\* an activation of split_volumes: its slice of objects, the axis it drew, how
\* far it has come and the left subtree once that is built
Frame(objects) == [objects |-> objects, axis |-> 0, at |-> "enter", left |-> BvhPanic]

\* no call has returned since the last call was made
NoReturn == [some |-> FALSE, node |-> BvhPanic, objects |-> <<>>, axis |-> 0]

\* the call on a slice returned node, having drawn axis and left the slice
\* as objects (the sorts reorder the caller's slice in place)
Returned(node, objects, axis) == [some |-> TRUE, node |-> node, objects |-> objects, axis |-> axis]

\* some object of the slice has no bounding box
Boxless(objects) == \E i \in 1..Len(objects) : ~BoundingBox(objects[i], 0, 0).some

\* the stack with its top frame replaced
WithTop(stack, frame) == [stack EXCEPT ![Len(stack)] = frame]

\* the stack without its top frame
Popped(stack) == SubSeq(stack, 1, Len(stack) - 1)

BuildIdle ==
    /\ svPc = "idle"
    /\ svStack = <<>>
    /\ svRet = NoReturn

\* render, line 95: BvhNode::from calls split_volumes on the world's objects
BuildInit ==
    /\ svPc = "running"
    /\ \E list \in BuildLists : svStack = <<Frame(list)>>
    /\ svRet = NoReturn

\* lines 49-72: a slice of one or of two objects becomes a node, which is
\* returned to the caller, or to render when it is the root
SplitLeaf ==
    /\ svPc = "running"
    /\ svStack # <<>>
    /\ LET top == svStack[Len(svStack)]
           n == Len(top.objects)
       IN /\ top.at = "enter"
          /\ n \in {1, 2}
          /\ ~(n = 2 /\ Boxless(top.objects))
          /\ \E axis \in Axes :
                LET node == IF n = 1
                            THEN BvhNew(top.objects[1], top.objects[1], 0, 1)
                            ELSE IF BoxCompare(top.objects[1], top.objects[2], axis) = "Less"
                            THEN BvhNew(top.objects[1], top.objects[2], 0, 1)
                            ELSE BvhNew(top.objects[2], top.objects[1], 0, 1)
                IN IF node = BvhPanic
                   THEN /\ svPc' = "panicked"
                        /\ svStack' = <<>>
                        /\ svRet' = NoReturn
                   ELSE /\ svStack' = Popped(svStack)
                        /\ svRet' = Returned(node, top.objects, axis)
                        /\ svPc' = IF Len(svStack) = 1 THEN "returned" ELSE "running"

\* lines 58 and 75: box_compare unwraps the bounding box of an object that has
\* none
SplitPanic ==
    /\ svPc = "running"
    /\ svStack # <<>>
    /\ LET top == svStack[Len(svStack)]
       IN /\ top.at = "enter"
          /\ Len(top.objects) >= 2
          /\ Boxless(top.objects)
    /\ svPc' = "panicked"
    /\ svStack' = <<>>
    /\ svRet' = NoReturn

\* lines 72-77: any other slice is sorted on the axis and split_volumes is
\* called on objects[0..mid]
SplitRecurse ==
    /\ svPc = "running"
    /\ svStack # <<>>
    /\ Len(svStack) < MaxCallDepth
    /\ LET top == svStack[Len(svStack)]
       IN /\ top.at = "enter"
          /\ Len(top.objects) \notin {1, 2}
          /\ ~Boxless(top.objects)
          /\ \E axis \in Axes : \E sorted \in SortedBy(top.objects, axis) :
                LET mid == Len(sorted) \div 2
                IN svStack' = Append(WithTop(svStack, [top EXCEPT !.objects = sorted,
                                                                  !.axis = axis,
                                                                  !.at = "left"]),
                                     Frame(SubSeq(sorted, 1, mid)))
    /\ svRet' = NoReturn
    /\ UNCHANGED svPc

\* the call of line 77 finds no room for its frame: the stack is exhausted and
\* the process is ended
SplitOverflow ==
    /\ svPc = "running"
    /\ Len(svStack) = MaxCallDepth
    /\ LET top == svStack[Len(svStack)]
       IN /\ top.at = "enter"
          /\ Len(top.objects) \notin {1, 2}
          /\ ~Boxless(top.objects)
    /\ svPc' = "overflow"
    /\ UNCHANGED <<svStack, svRet>>

\* lines 77-78: the left subtree is back; split_volumes is called on
\* objects[mid..]
SplitLeftDone ==
    /\ svPc = "running"
    /\ svStack # <<>>
    /\ svRet.some
    /\ LET top == svStack[Len(svStack)]
           mid == Len(top.objects) \div 2
           rest == SubSeq(top.objects, mid + 1, Len(top.objects))
       IN /\ top.at = "left"
          /\ svStack' = Append(WithTop(svStack, [top EXCEPT !.objects = svRet.objects \o rest,
                                                            !.at = "right",
                                                            !.left = svRet.node]),
                               Frame(rest))
    /\ svRet' = NoReturn
    /\ UNCHANGED svPc

\* lines 78-90: the right subtree is back; the node of the two subtrees is
\* returned
SplitRightDone ==
    /\ svPc = "running"
    /\ svStack # <<>>
    /\ svRet.some
    /\ LET top == svStack[Len(svStack)]
           mid == Len(top.objects) \div 2
           node == BvhNew(top.left, svRet.node, 0, 1)
       IN /\ top.at = "right"
          /\ svStack' = Popped(svStack)
          /\ svRet' = Returned(node, SubSeq(top.objects, 1, mid) \o svRet.objects, top.axis)
          /\ svPc' = IF Len(svStack) = 1 THEN "returned" ELSE "running"

BuildNext ==
    \/ SplitLeaf
    \/ SplitPanic
    \/ SplitRecurse
    \/ SplitOverflow
    \/ SplitLeftDone
    \/ SplitRightDone

MainStep == NewPool \/ Submit \/ AllocImage \/ Receive \/ Return

WorkerStep == \E w \in Workers : WorkerRender(w) \/ WorkerSend(w) \/ WorkerPanic(w)

Next == (MainStep \/ WorkerStep) /\ UNCHANGED <<rayVars, bvhVars, ppmVars, toneVars, mainVars, scVars, texVars, cmVars, svVars>>

Init == RenderInit /\ RayIdle /\ BvhIdle /\ PpmIdle /\ ToneIdle /\ MainIdle /\ ScatterIdle /\ TexIdle /\ MediumIdle /\ BuildIdle

Spec == Init /\ [][Next]_vars

\* The OS schedules every thread that can run: a step that stays possible is
\* eventually taken.
FairSpec == Spec /\ WF_vars(Next)

NextTwice == Next \/ (SecondRender /\ UNCHANGED <<rayVars, bvhVars, ppmVars, toneVars, mainVars, scVars, texVars, cmVars, svVars>>)

SpecTwice == Init /\ [][NextTwice]_vars

InitRay == RenderInit /\ RayInit /\ BvhIdle /\ PpmIdle /\ ToneIdle /\ MainIdle /\ ScatterIdle /\ TexIdle /\ MediumIdle /\ BuildIdle

NextRay == RayNext /\ UNCHANGED <<renderVars, bvhVars, ppmVars, toneVars, mainVars, scVars, texVars, cmVars, svVars>>

SpecRay == InitRay /\ [][NextRay]_vars

\* a call that can run does run
FairSpecRay == SpecRay /\ WF_vars(NextRay)

InitBvh == RenderInit /\ RayIdle /\ BvhInit /\ PpmIdle /\ ToneIdle /\ MainIdle /\ ScatterIdle /\ TexIdle /\ MediumIdle /\ BuildIdle

NextBvh == BvhNext /\ UNCHANGED <<renderVars, rayVars, ppmVars, toneVars, mainVars, scVars, texVars, cmVars, svVars>>

SpecBvh == InitBvh /\ [][NextBvh]_vars

InitPpm == RenderInit /\ RayIdle /\ BvhIdle /\ PpmInit /\ ToneIdle /\ MainIdle /\ ScatterIdle /\ TexIdle /\ MediumIdle /\ BuildIdle

NextPpm == PpmNext /\ UNCHANGED <<renderVars, rayVars, bvhVars, toneVars, mainVars, scVars, texVars, cmVars, svVars>>

SpecPpm == InitPpm /\ [][NextPpm]_vars

InitTone == RenderInit /\ RayIdle /\ BvhIdle /\ PpmIdle /\ ToneInit /\ MainIdle /\ ScatterIdle /\ TexIdle /\ MediumIdle /\ BuildIdle

NextTone == ToneNext /\ UNCHANGED <<renderVars, rayVars, bvhVars, ppmVars, mainVars, scVars, texVars, cmVars, svVars>>

SpecTone == InitTone /\ [][NextTone]_vars

InitMain == RenderInit /\ RayIdle /\ BvhIdle /\ PpmIdle /\ ToneIdle /\ MainInit /\ ScatterIdle /\ TexIdle /\ MediumIdle /\ BuildIdle

NextMain == MainNext /\ UNCHANGED <<renderVars, rayVars, bvhVars, ppmVars, toneVars, scVars, texVars, cmVars, svVars>>

SpecMain == InitMain /\ [][NextMain]_vars

InitScatter == RenderInit /\ RayIdle /\ BvhIdle /\ PpmIdle /\ ToneIdle /\ MainIdle /\ ScatterInit /\ TexIdle /\ MediumIdle /\ BuildIdle

NextScatter == ScatterNext /\ UNCHANGED <<renderVars, rayVars, bvhVars, ppmVars, toneVars, mainVars, texVars, cmVars, svVars>>

SpecScatter == InitScatter /\ [][NextScatter]_vars

InitTex == RenderInit /\ RayIdle /\ BvhIdle /\ PpmIdle /\ ToneIdle /\ MainIdle /\ ScatterIdle /\ TexInit /\ MediumIdle /\ BuildIdle

NextTex == TexNext /\ UNCHANGED <<renderVars, rayVars, bvhVars, ppmVars, toneVars, mainVars, scVars, cmVars, svVars>>

SpecTex == InitTex /\ [][NextTex]_vars

InitMedium == RenderInit /\ RayIdle /\ BvhIdle /\ PpmIdle /\ ToneIdle /\ MainIdle /\ ScatterIdle /\ TexIdle /\ MediumInit /\ BuildIdle

NextMedium == MediumNext /\ UNCHANGED <<renderVars, rayVars, bvhVars, ppmVars, toneVars, mainVars, scVars, texVars, svVars>>

SpecMedium == InitMedium /\ [][NextMedium]_vars

InitBuild == RenderInit /\ RayIdle /\ BvhIdle /\ PpmIdle /\ ToneIdle /\ MainIdle /\ ScatterIdle /\ TexIdle /\ MediumIdle /\ BuildInit

NextBuild == BuildNext /\ UNCHANGED <<renderVars, rayVars, bvhVars, ppmVars, toneVars, mainVars, scVars, texVars, cmVars>>

SpecBuild == InitBuild /\ [][NextBuild]_vars

(***************************************************************************)
(* Renderer::render: the claims.                                           *)
(***************************************************************************)

\* row r of the image holds exactly the vector task r sent
RowIs(img, r, colors) ==
    /\ Len(colors) = ImageWidth
    /\ \A c \in Cols : img[r * ImageWidth + c + 1] = colors[c + 1]

\* C1: every row index 0..H-1 is submitted as exactly one scanline task, and
\* when render returns, image[r*W + c] is the c-th color of the vector task r
\* sent, for every row whose task sent one, in whatever order the rows arrived.
C1_RowsPlacedByIndex ==
    /\ \A r \in Rows : submitted[r] <= 1
    /\ pcMain \in {"recv", "returned"} => \A r \in Rows : submitted[r] = 1
    /\ pcMain = "returned" =>
          \A r \in Rows : r \notin panicked =>
              /\ sent[r] # <<>>
              /\ RowIs(image, r, sent[r])

\* C1 witness: render returned after receiving all rows, out of row order
C1_Witness ==
    /\ pcMain = "returned"
    /\ Len(recvOrder) = ImageHeight
    /\ recvOrder[1] > recvOrder[2]
    /\ \A r \in Rows : RowIs(image, r, sent[r])

\* C2: render terminates: the receive loop ends once every Sender, the original
\* included, has been dropped and the channel is drained, after all H rows have
\* been received when every task finished, and render then returns.
C2_RenderTerminates ==
    <>(/\ pcMain = "returned"
       /\ senders = 0
       /\ chan = <<>>
       /\ jobs = <<>>
       /\ (panicked = {} => Len(recvOrder) = ImageHeight))

\* C2 witness: render has returned with every task finished and H rows received
C2_Witness ==
    /\ pcMain = "returned"
    /\ panicked = {}
    /\ senders = 0
    /\ Len(recvOrder) = ImageHeight

\* C3 (as claimed): a returned image holds, in every row, the vector that the
\* row's scanline task produced: no returned image has a row no task filled.
C3_AllOrNothing ==
    pcMain = "returned" =>
        \A r \in Rows : sent[r] # <<>> /\ RowIs(image, r, sent[r])

\* C4: a worker step leaves the world, the camera and the image unchanged; the
\* image changes only in a step of the main thread: its allocation, or the
\* placing of a row the main thread takes from the results channel.
C4_WorkersLeaveSharedState ==
    [][/\ WorkerStep => UNCHANGED <<world, camera, image>>
       /\ image' # image =>
             /\ MainStep
             /\ \/ image = <<>> /\ image' = DefaultImage
                \/ /\ pcMain = "recv"
                   /\ chan # <<>>
                   /\ chan' = Tail(chan)
                   /\ RowIs(image', Head(chan).row, Head(chan).colors)]_vars

\* C4 witness: a row has been placed while a worker still holds a rendered row
C4_Witness ==
    /\ pcMain = "recv"
    /\ image # <<>>
    /\ image # DefaultImage
    /\ \E w \in Workers : wstate[w] = "computed"

\* C5 (as claimed): two renders of the same job in which every worker thread's
\* RNG has the same fixed seed, and no task panics, return the same image.
C5_SameImageTwice ==
    (/\ renderNo = 2
     /\ pcMain = "returned"
     /\ fixedSeeds
     /\ firstClean
     /\ panicked = {}) => image = firstImage

\* C6: ray_color terminates for every depth >= 0. With depth 0 it returns black
\* without querying the world; each call makes at most one recursive call, with
\* depth - 1 (the depth of the running call and the number of suspended calls
\* add up to the initial depth D), so a primary ray costs at most D hit queries and at most D
\* scatter calls.
C6_RayColorTerminates ==
    /\ [](/\ rcDepth >= 0
          /\ Len(rcStack) + rcDepth <= rcD
          /\ (rcPhase = "call" => Len(rcStack) + rcDepth = rcD)
          /\ rcHits <= rcD
          /\ rcScatters <= rcD
          /\ Len(rcTrace) <= rcD + 1
          /\ (rcD = 0 /\ rcPhase = "done" => rcValue = Black /\ rcHits = 0))
    /\ <>(rcPhase = "done")

\* a primary ray that bounced until the depth was used up
C6_Witness ==
    /\ rcPhase = "done"
    /\ rcD = MaxDepth
    /\ rcHits = MaxDepth
    /\ rcScatters = MaxDepth
    /\ rcTrace[Len(rcTrace)].kind = "depth0"

\* the color the calls recorded in rcTrace from the i-th on return, by the
\* equation of ray_color
RECURSIVE ExpectedColor(_)
ExpectedColor(i) ==
    LET e == rcTrace[i]
    IN CASE e.kind = "depth0" -> Black
         [] e.kind = "miss" -> BackgroundSample(rcBg, e.ray)
         [] e.kind = "emit" -> e.emitted
         [] e.kind = "scatter" ->
                [c \in 1..3 |-> e.emitted[c] + e.attenuation[c] * ExpectedColor(i + 1)[c]]

\* the i-th call did what ray_color is specified to do
CallAsSpecified(i) ==
    LET e == rcTrace[i]
        rec == WorldHit(e.ray, 100, PInf)
    IN /\ e.depth = rcD - (i - 1)
       /\ (e.kind = "depth0") = (e.depth = 0)
       /\ e.depth > 0 =>
            /\ e.tmin = 100
            /\ e.tmax = PInf
            /\ e.hit = rec
            /\ (e.kind = "miss") = (rec = NoHit)
            /\ rec # NoHit =>
                 /\ rec.t > 100
                 /\ e.emitted = (IF rcScene[rec.p] = "light" THEN TexValue(rec.p) ELSE Black)
                 /\ rcScene[rec.p] = "light" => e.kind = "emit"
                 /\ e.kind = "emit" => rcScene[rec.p] \in {"light", "metal"}
       /\ (e.kind = "scatter") = (i < Len(rcTrace))

\* C7: for depth > 0 ray_color queries world.hit(ray, 0.001, +infinity); it
\* returns the background when nothing is hit, exactly the emitted color when
\* the material does not scatter (always so for DiffuseLight), and otherwise
\* emitted + attenuation * ray_color(scattered, depth - 1), componentwise.
C7_RayColorEquation ==
    rcPhase = "done" =>
        /\ \A i \in 1..Len(rcTrace) : CallAsSpecified(i)
        /\ rcValue = ExpectedColor(1)

\* a ray scattered off a surface (so that the surface it left is within 0.001
\* of it) reached a light, and the light's color came back attenuated
C7_Witness ==
    /\ rcPhase = "done"
    /\ Len(rcTrace) = 2
    /\ rcTrace[1].kind = "scatter"
    /\ rcTrace[2].kind = "emit"
    /\ rcScene[rcTrace[2].hit.p] = "light"
    /\ rcTrace[2].ray.o \in Surfaces
    /\ rcValue # rcTrace[2].emitted
    /\ rcValue # Black

\* C8: the time of a ray is carried unchanged through every bounce: the ray a
\* material scatters has the time of the ray that hit it.
C8_TimeCarriedThroughBounces ==
    \A i \in 1..(Len(rcTrace) - 1) :
        rcTrace[i].kind = "scatter" => rcTrace[i + 1].ray.time = rcTrace[i].ray.time

\* the primitive with the given id hits the queried ray at t within the queried interval
HitsAt(id, t) ==
    \E i \in 1..Len(worldObjects) :
        LET h == Hit(worldObjects[i], qRay, qTMin, qTMax)
        IN h.some /\ h.id = id /\ h.t = t

\* C9: for a non-empty set of primitives with bounding boxes, any ray and any
\* (t_min, t_max), BvhNode::hit returns a hit exactly when HittableList::hit over
\* the same primitives does, with the same t and the same primitive, up to ties
\* at equal t, whatever axes the construction drew.
C9_BvhRefinesList ==
    bvhPhase = "queried" =>
        /\ bvhResult.some = listResult.some
        /\ bvhResult.some =>
              /\ bvhResult.t = listResult.t
              /\ \/ bvhResult.id = listResult.id
                 \/ HitsAt(bvhResult.id, bvhResult.t) /\ HitsAt(listResult.id, listResult.t)

RECURSIVE Primitives(_)
\* the objects at the leaves of a BVH
Primitives(node) ==
    IF node.kind = "bvh" THEN Primitives(node.left) \cup Primitives(node.right) ELSE {node}

BoxContains(outer, inner) ==
    \A i \in Axes : outer.min[i] <= inner.min[i] /\ inner.max[i] <= outer.max[i]

RECURSIVE BoxesNested(_)
\* every BvhNode at or below node has a box that contains its children's boxes
\* and the boxes of all the objects below it
BoxesNested(node) ==
    node.kind = "bvh" =>
        /\ BoxContains(node.bbox, BoundingBox(node.left, 0, 1).box)
        /\ BoxContains(node.bbox, BoundingBox(node.right, 0, 1).box)
        /\ \A obj \in Primitives(node) : BoxContains(node.bbox, BoundingBox(obj, 0, 1).box)
        /\ BoxesNested(node.left)
        /\ BoxesNested(node.right)

\* C10: after construction the bounding box of every BvhNode contains the
\* bounding boxes (over time0..time1) of both its children, hence of every
\* descendant.
C10_NodeBoxContainsChildren ==
    bvhPhase \in {"built", "queried"} => bvhRoot.kind = "bvh" /\ BoxesNested(bvhRoot)

\* a tree of three levels over four objects, one of them moving, whose root box
\* is strictly larger than the box of either child
C10_Witness ==
    /\ bvhPhase = "built"
    /\ Len(worldObjects) = 4
    /\ bvhRoot.left.kind = "bvh"
    /\ bvhRoot.right.kind = "bvh"
    /\ \E obj \in Primitives(bvhRoot) : obj.kind = "moving_sphere"
    /\ bvhRoot.bbox # bvhRoot.left.bbox
    /\ bvhRoot.bbox # bvhRoot.right.bbox

\* C11: the construction of a BVH panics, and yields no BVH, whenever an object
\* of the input has no bounding box; a BVH that was built has no leaf without a
\* bounding box.
C11_BoxlessObjectPanics ==
    bvhPhase \in {"built", "queried", "panicked"} =>
        /\ (bvhPhase = "panicked") =
              (\E i \in 1..Len(worldObjects) : ~BoundingBox(worldObjects[i], 0, 1).some)
        /\ (bvhPhase = "panicked") = (bvhRoot = BvhPanic)
        /\ bvhPhase # "panicked" =>
              \A obj \in Primitives(bvhRoot) : BoundingBox(obj, 0, 1).some

\* the construction over three objects, the last without a bounding box, panicked
C11_Witness ==
    /\ bvhPhase = "panicked"
    /\ Len(worldObjects) = 3
    /\ bvhRoot = BvhPanic

\* C12: a record returned by hit(r, t_min, t_max), of any hittable, has t
\* strictly inside the interval: t_min < t < t_max.
C12_HitInsideInterval ==
    bvhPhase = "queried" =>
        /\ \A i \in 1..Len(objHits) :
              objHits[i].some => Gt(objHits[i].t, qTMin) /\ Lt(objHits[i].t, qTMax)
        /\ listResult.some => Gt(listResult.t, qTMin) /\ Lt(listResult.t, qTMax)
        /\ bvhResult.some => Gt(bvhResult.t, qTMin) /\ Lt(bvhResult.t, qTMax)

\* a geometric primitive, or a Translate around one
IsPrimitiveOrTransformed(obj) ==
    \/ obj.kind \in {"sphere", "moving_sphere", "xy_rect", "xz_rect", "yz_rect"}
    \/ obj.kind = "translate" /\
         obj.ptr.kind \in {"sphere", "moving_sphere", "xy_rect", "xz_rect", "yz_rect"}

\* the outward normal of the primitive's surface where the ray meets it at t
RECURSIVE OutwardNormalAt(_, _, _)
OutwardNormalAt(obj, r, t) ==
    CASE obj.kind = "sphere" ->
            [i \in Axes |-> (RayAt(r, t)[i] - obj.center[i]) \div obj.radius]
      [] obj.kind = "moving_sphere" ->
            [i \in Axes |-> (RayAt(r, t)[i] - MovingSphereCenter(obj, r.time)[i]) \div obj.radius]
      [] obj.kind = "xy_rect" -> <<0, 0, 1>>
      [] obj.kind = "xz_rect" -> <<0, 1, 0>>
      [] obj.kind = "yz_rect" -> <<1, 0, 0>>
      [] obj.kind = "translate" ->
            OutwardNormalAt(obj.ptr, [r EXCEPT !.o = [i \in Axes |-> r.o[i] - obj.offset[i]]], t)

\* C13: in a record returned by a geometric primitive, or by a transform wrapper
\* around one, the normal opposes the incoming ray (normal . direction <= 0) and
\* front_face is true exactly when the ray's direction has a negative dot product
\* with the outward normal.
C13_NormalOpposesRay ==
    bvhPhase = "queried" =>
        \A i \in 1..Len(objHits) :
            (IsPrimitiveOrTransformed(worldObjects[i]) /\ objHits[i].some) =>
                /\ Dot(qRay.d, objHits[i].normal) <= 0
                /\ objHits[i].front_face =
                      (Dot(qRay.d, OutwardNormalAt(worldObjects[i], qRay, objHits[i].t)) < 0)

\* C14: FlipFace(x).hit returns None exactly when x.hit does, and otherwise x's
\* record with front_face negated and everything else unchanged;
\* FlipFace(x).bounding_box is x.bounding_box.
C14_FlipFaceNegatesFrontFace ==
    \A i \in 1..Len(worldObjects) :
        worldObjects[i].kind = "flip_face" =>
            /\ \A t0, t1 \in Times :
                  BoundingBox(worldObjects[i], t0, t1) = BoundingBox(worldObjects[i].ptr, t0, t1)
            /\ bvhPhase = "queried" =>
                  LET inner == Hit(worldObjects[i].ptr, qRay, qTMin, qTMax)
                  IN /\ objHits[i].some = inner.some
                     /\ inner.some =>
                           /\ objHits[i].front_face = ~inner.front_face
                           /\ [objHits[i] EXCEPT !.front_face = inner.front_face] = inner

\* a flipped rectangle was hit on the side its unflipped normal points to
C14_Witness ==
    /\ bvhPhase = "queried"
    /\ \E i \in 1..Len(worldObjects) :
          /\ worldObjects[i].kind = "flip_face"
          /\ objHits[i].some
          /\ ~objHits[i].front_face
          /\ objHits[i].t = 3 * Grid

\* C15: Translate(x, v).hit(r, t_min, t_max) is x.hit on the ray with origin
\* r.origin - v: None exactly when that is None, and otherwise the inner record
\* with p moved by v and normal, front_face, t, u, v and material unchanged.
C15_TranslateMovesOnlyThePoint ==
    bvhPhase = "queried" =>
        \A i \in 1..Len(worldObjects) :
            worldObjects[i].kind = "translate" =>
                LET obj == worldObjects[i]
                    inner == Hit(obj.ptr,
                                 [o |-> [k \in Axes |-> qRay.o[k] - obj.offset[k]],
                                  d |-> qRay.d, time |-> qRay.time],
                                 qTMin, qTMax)
                IN /\ objHits[i].some = inner.some
                   /\ inner.some =>
                         objHits[i] =
                            [inner EXCEPT !.p = [k \in Axes |-> Add(inner.p[k], obj.offset[k])]]

\* C16: HittableList::hit returns None exactly when no child hits within the
\* interval, and otherwise a child's record with the smallest t among the
\* children's hits.
C16_ListReturnsClosest ==
    bvhPhase = "queried" =>
        /\ listResult.some = (\E i \in 1..Len(objHits) : objHits[i].some)
        /\ listResult.some =>
              /\ \E i \in 1..Len(objHits) :
                    objHits[i].some /\ objHits[i].t = listResult.t /\ objHits[i].id = listResult.id
              /\ \A i \in 1..Len(objHits) :
                    objHits[i].some =>
                        listResult.t = objHits[i].t \/ Lt(listResult.t, objHits[i].t)

\* the lists among the objects of the world
WorldLists == {worldObjects[i] : i \in {j \in 1..Len(worldObjects) : worldObjects[j].kind = "list"}}

\* the boxes of the children of a list that have one
ChildBoxes(list, t0, t1) ==
    {BoundingBox(list.objects[i], t0, t1).box :
        i \in {j \in 1..Len(list.objects) : BoundingBox(list.objects[j], t0, t1).some}}

\* C17: HittableList::bounding_box(t0, t1) is None for an empty list and
\* otherwise the surround of the children's boxes: on every axis the least of
\* their lower corners and the greatest of their upper corners. The unit spheres
\* at (1,1,1) and (2,2,2) give min (0,0,0) and max (3,3,3).
C17_ListBoxSurroundsChildren ==
    \A list \in WorldLists : \A t0, t1 \in Times :
        LET bb == BoundingBox(list, t0, t1)
            kids == ChildBoxes(list, t0, t1)
        IN /\ bb.some = (Len(list.objects) > 0)
           /\ bb.some =>
                 \A a \in Axes :
                    /\ \A k \in kids : bb.box.min[a] <= k.min[a] /\ k.max[a] <= bb.box.max[a]
                    /\ kids # {} => \E k \in kids : bb.box.min[a] = k.min[a]
                    /\ kids # {} => \E k \in kids : bb.box.max[a] = k.max[a]
           /\ list.objects = <<Sphere(1, Point3(1, 1, 1), Grid), Sphere(2, Point3(2, 2, 2), Grid)>>
                 => bb.box = Aabb(Point3(0, 0, 0), Point3(3, 3, 3))

\* the list of the two unit spheres is a leaf of the BVH, whose root box is the
\* list's box
C17_Witness ==
    /\ bvhPhase = "built"
    /\ \E list \in WorldLists : Len(list.objects) = 2 /\ list \in Primitives(bvhRoot)
    /\ bvhRoot.bbox = Aabb(Point3(0, 0, 0), Point3(3, 3, 3))

\* the spheres among the objects of the world and among the children of its lists
WorldSpheres ==
    {worldObjects[i] : i \in {j \in 1..Len(worldObjects) : worldObjects[j].kind = "sphere"}}
    \cup UNION {{list.objects[i] :
                   i \in {j \in 1..Len(list.objects) : list.objects[j].kind = "sphere"}} :
                list \in WorldLists}

\* C18: Sphere::bounding_box returns, for every centre c, radius r and t0, t1,
\* the box with min = c - (r, r, r) and max = c + (r, r, r); centre (1,1,1) with
\* radius 1 gives min (0,0,0) and max (2,2,2).
C18_SphereBox ==
    \A sphere \in WorldSpheres : \A t0, t1 \in Times :
        LET bb == BoundingBox(sphere, t0, t1)
        IN /\ bb.some
           /\ \A a \in Axes :
                 /\ bb.box.min[a] = sphere.center[a] - sphere.radius
                 /\ bb.box.max[a] = sphere.center[a] + sphere.radius
           /\ (sphere.center = Point3(1, 1, 1) /\ sphere.radius = Grid)
                 => bb.box = Aabb(Point3(0, 0, 0), Point3(2, 2, 2))

\* the unit sphere at (1,1,1) is a leaf of the BVH
C18_Witness ==
    /\ bvhPhase = "built"
    /\ \E sphere \in WorldSpheres :
          /\ sphere.center = Point3(1, 1, 1)
          /\ sphere \in Primitives(bvhRoot)
          /\ BoundingBox(sphere, 0, 1).box = Aabb(Point3(0, 0, 0), Point3(2, 2, 2))

\* how high in the camera's view the pixel (r, c) of the buffer was sampled
PixelHeight(r, c) ==
    LET color == image[r * ImageWidth + c + 1]
    IN GetRayHeight(SampleV(ScanlineOf(color), DrawnOf(color)))

\* C19: in the buffer render returns, row 0 is the top scanline of the image as
\* the camera sees it and the rows run from the top to the bottom: a row with a
\* lower index was sampled higher in the view.
C19_RowZeroIsTop ==
    (pcMain = "returned" /\ panicked = {}) =>
        \A r1, r2 \in Rows : \A c \in Cols :
            r1 < r2 => PixelHeight(r1, c) > PixelHeight(r2, c)

\* the row of the buffer the pixels of row r of the file were read from
BufferRowOf(r) == (ppmRead[r * ImageWidth + 1] - 1) \div ImageWidth

\* C20: write_file writes the lines P3, <width> <height>, 255 and then exactly
\* width * height R G B lines, reading every pixel of the buffer exactly once,
\* row by row from left to right, the top scanline of the image first.
C20_PpmLayout ==
    ppmPc = "done" =>
        /\ Len(ppmLines) = 3 + ImageWidth * ImageHeight
        /\ ppmLines[1] = PpmLine("P3", 0, 0, 0)
        /\ ppmLines[2] = PpmLine("size", ImageWidth, ImageHeight, 0)
        /\ ppmLines[3] = PpmLine("max", 255, 0, 0)
        /\ Len(ppmRead) = ImageWidth * ImageHeight
        /\ {ppmRead[i] : i \in 1..Len(ppmRead)} = 1..(ImageWidth * ImageHeight)
        /\ \A i \in 1..Len(ppmRead) : ppmLines[3 + i] = RgbLine(ppmImage[ppmRead[i]])
        /\ \A r \in Rows : \A c \in Cols :
              ppmRead[r * ImageWidth + c + 1] = BufferRowOf(r) * ImageWidth + c + 1
        /\ \A r1, r2 \in Rows :
              r1 < r2 => \A x1, x2 \in 0..(RngMod - 1) :
                  GetRayHeight(SampleV(BufferRowOf(r1), x1)) > GetRayHeight(SampleV(BufferRowOf(r2), x2))

\* a buffer of pairwise different pixels was written out in full
C20_Witness ==
    /\ ppmPc = "done"
    /\ Len(ppmLines) = 3 + ImageWidth * ImageHeight
    /\ \A i, j \in 1..Len(ppmImage) : i # j => ppmImage[i] # ppmImage[j]
    /\ ppmLines[4] = RgbLine(ppmImage[(ImageHeight - 1) * ImageWidth + 1])
    /\ ppmLines[4] # RgbLine(ppmImage[1])

(***************************************************************************)
(* The tone map, the command line, and the process's exit.                 *)
(***************************************************************************)
\* C21: for a color sum with non-negative channels and N >= 1 samples, every
\* channel multi_sample returns is at least 0 and below 256, so the byte
\* written for it is its integer part, an integer of 0..255; and every call of
\* clamp(x, min, max) returns min when x < min, max when x > max and x otherwise.
C21_ToneMapInByteRange ==
    /\ tonePc \in {"mapped", "written"} =>
          \A i \in 1..3 :
              /\ toneClamps[i].result =
                    (IF Lt(toneClamps[i].x, toneClamps[i].min) THEN toneClamps[i].min
                     ELSE IF Gt(toneClamps[i].x, toneClamps[i].max) THEN toneClamps[i].max
                     ELSE toneClamps[i].x)
              /\ Ge(toneSum[i], 0) =>
                    /\ IsFinite(toneColor[i])
                    /\ toneColor[i] >= 0
                    /\ toneColor[i] < 256 * 1000
    /\ tonePc = "written" =>
          \A i \in 1..3 :
              Ge(toneSum[i], 0) =>
                  /\ toneBytes[i] \in 0..255
                  /\ toneBytes[i] * 1000 <= toneColor[i]
                  /\ toneColor[i] < (toneBytes[i] + 1) * 1000

\* a sum whose channels are below 0.999, above it and infinite per sample was
\* mapped and written: 0.5 gives 128, the others 255
C21_Witness ==
    /\ tonePc = "written"
    /\ toneN > 1
    /\ toneSum = <<toneN * 250000, toneN * MaxRoot * MaxRoot, PInf>>
    /\ toneBytes = <<128, 255, 255>>

\* C22: when the output file cannot be created or written, the error is
\* reported and the process exits with a nonzero exit code.
C22_WriteErrorExitsNonzero ==
    (mainPc = "exited" /\ mainWrite = "err") =>
        /\ \E i \in 1..Len(mainStderr) : mainStderr[i] = "io::Error"
        /\ mainExit # <<0>>

\* the value given for switch sw: the argument after its first occurrence
HasValue(args, sw) == Position(args, sw) # 0 /\ Position(args, sw) + 1 <= Len(args)
ValueOf(args, sw) == args[Position(args, sw) + 1]

\* the argument list is invalid in one of the ways the claim names
InvalidArgs(args) ==
    \/ \E i \in 1..Len(args) : StartsWithDash(args[i]) /\ args[i] \notin ValidSwitches
    \/ HasValue(args, "-w") /\ ~(ParseU32(ValueOf(args, "-w")).ok /\ ParseU32(ValueOf(args, "-w")).v > 0)
    \/ HasValue(args, "-a") /\
          ~(ParseF64(ValueOf(args, "-a")).ok
            /\ ParseF64(ValueOf(args, "-a")).v[1] > ParseF64(ValueOf(args, "-a")).v[2])
    \/ HasValue(args, "-p") /\ ~(ParseU32(ValueOf(args, "-p")).ok /\ ParseU32(ValueOf(args, "-p")).v >= 1)
    \/ HasValue(args, "-s") /\ ~(ParseU32(ValueOf(args, "-s")).ok /\ ParseU32(ValueOf(args, "-s")).v \in 1..6)

\* C23: for an argument list with an unknown switch, a width that is not an
\* integer > 0, an aspect ratio that is not a number > 1, a samples-per-pixel
\* value that is not an integer >= 1 or a scene number outside 1..6,
\* Command::new returns an error and the process exits nonzero without
\* rendering; a list it accepts gives the parsed values, with width 1024,
\* aspect ratio 16/9 and 500 samples per pixel for the options not given.
C23_InvalidArgsRejected ==
    mainPc = "exited" =>
        /\ InvalidArgs(mainArgs) =>
              /\ ~mainCommand.ok
              /\ ~mainRendered
              /\ mainExit # <<0>>
        /\ mainCommand.ok =>
              /\ mainCommand.width =
                    (IF HasValue(mainArgs, "-w") THEN ParseU32(ValueOf(mainArgs, "-w")).v ELSE 1024)
              /\ mainCommand.aspect_ratio =
                    (IF HasValue(mainArgs, "-a") THEN ParseF64(ValueOf(mainArgs, "-a")).v ELSE <<16, 9>>)
              /\ mainCommand.samples_per_pixel =
                    (IF HasValue(mainArgs, "-p") THEN ParseU32(ValueOf(mainArgs, "-p")).v ELSE 500)

(***************************************************************************)
(* Bounding boxes and the construction of the BVH: further claims.         *)
(***************************************************************************)
RECURSIVE Parts(_)
\* a hittable and every hittable it wraps or holds
Parts(obj) ==
    {obj} \cup
    (CASE obj.kind \in {"flip_face", "translate"} -> Parts(obj.ptr)
       [] obj.kind = "list" -> UNION {Parts(obj.objects[i]) : i \in 1..Len(obj.objects)}
       [] obj.kind = "bvh" -> Parts(obj.left) \cup Parts(obj.right)
       [] OTHER -> {})

\* the world's HittableList, the BVH once it is built, and all their parts
AllHittables ==
    Parts(HittableList(worldObjects)) \cup
    (IF bvhPhase \in {"built", "queried"} THEN Parts(bvhRoot) ELSE {})

\* C24: every Aabb a bounding_box returns as Some (of a sphere, a moving sphere,
\* a rectangle, a box, a Translate, a FlipFace, a HittableList or a BvhNode)
\* has min <= max on every axis.
C24_BoxMinBelowMax ==
    bvhPhase \in {"built", "queried", "panicked"} =>
        \A obj \in AllHittables : \A t0, t1 \in Times :
            BoundingBox(obj, t0, t1).some =>
                \A a \in Axes : Le(BoundingBox(obj, t0, t1).box.min[a],
                                   BoundingBox(obj, t0, t1).box.max[a])

(***************************************************************************)
(* Materials, textures and the constant medium: the claims.                *)
(***************************************************************************)
\* C25: every ray a material's scatter returns (Lambertian, Metal, Isotropic,
\* Dielectric) has a direction that is not the zero vector.
C25_ScatteredDirectionNonZero ==
    (scPc = "scattered" /\ scOut.some) => scOut.direction # <<0, 0, 0>>

\* a coordinate clamped to 0..1, as a number (NaN has none)
Clamped01(x) == IF x < 0 THEN 0 ELSE IF x > One THEN One ELSE x
FloorOf(x) == x \div One
MinOf(a, b) == IF a < b THEN a ELSE b

\* C26: for a texture with data, of width w > 0 and height h > 0, and any u and
\* v, value reads the three bytes at offset (j * w + i) * 3 with
\* i = min(floor(clamp(u, 0, 1) * w), w - 1) and
\* j = min(floor((1 - clamp(v, 0, 1)) * h), h - 1), all of them inside the data;
\* for a texture without data it returns the sentinel color and reads nothing.
C26_TexelOffsetInBounds ==
    texPc # "call" =>
        IF Len(texture.data) = 0
        THEN texPc = "returned" /\ texColor = Cyan /\ texRead = <<>>
        ELSE /\ texPc = "returned"
             /\ Len(texRead) = 3
             /\ \A k \in 1..3 : texRead[k] \in 0..(Len(texture.data) - 1)
             /\ texColor = [k \in 1..3 |-> texRead[k]]
             /\ (~IsNaN(texU) /\ ~IsNaN(texV)) =>
                   LET i == MinOf(FloorOf(Clamped01(texU) * texture.width), texture.width - 1)
                       j == MinOf(FloorOf((One - Clamped01(texV)) * texture.height),
                                  texture.height - 1)
                   IN texRead = <<(j * texture.width + i) * 3,
                                  (j * texture.width + i) * 3 + 1,
                                  (j * texture.width + i) * 3 + 2>>

\* u = 1.0 and v = 0.0 on the largest texture read its last pixel: the column
\* w - 1 after the test against the width, the row h - 1 after the flip
C26_Witness ==
    /\ texPc = "returned"
    /\ texture.width = MaxTexWidth
    /\ texture.height = MaxTexHeight
    /\ texU = One
    /\ texV = 0
    /\ texRead[3] = Len(texture.data) - 1

\* the point o + k * d, in units of 1.0, for a whole k
WholePoint(r, k) == [i \in Axes |-> r.o[i] \div Grid + k * r.d[i]]

\* the point p, in units of 1.0, lies on the surface of the boundary
OnBoundary(p, boundary) ==
    IF boundary.kind = "sphere"
    THEN LET q == [i \in Axes |-> p[i] - boundary.center[i] \div Grid]
         IN Dot(q, q) = (boundary.radius \div Grid) * (boundary.radius \div Grid)
    ELSE /\ \A i \in Axes : boundary.box_min[i] <= p[i] * Grid /\ p[i] * Grid <= boundary.box_max[i]
         /\ \E i \in Axes : p[i] * Grid \in {boundary.box_min[i], boundary.box_max[i]}

\* the ray parameters, in units of 0.00001, at which the ray is on the boundary
Crossings(r, boundary) ==
    {k * Grid : k \in {j \in -12..12 : OnBoundary(WholePoint(r, j), boundary)}}

SetMin(S) == CHOOSE x \in S : \A y \in S : x <= y
SetMax(S) == CHOOSE x \in S : \A y \in S : x >= y

\* C27: ConstantMedium::hit returns None when the ray meets the boundary fewer
\* than twice and when the segment between the entry t1 and the exit t2, cut to
\* t_min..t_max, is empty; the t of a record it returns lies between
\* max(t1, t_min, 0) and min(t2, t_max), and the record carries the medium's
\* phase function as its material.
C27_MediumHitInsideSegment ==
    (cmPc \in {"direct", "leaf"} /\ cmX.kind = "constant_medium") =>
        LET cr == Crossings(cmRay, cmX.boundary)
        IN IF Cardinality(cr) < 2 THEN ~cmDirect.some
           ELSE LET lo == FMax(SetMin(cr), cmTMin)
                    hi == FMin(SetMax(cr), cmTMax)
                IN /\ lo >= hi => ~cmDirect.some
                   /\ cmDirect.some =>
                         /\ Le(FMax(lo, 0), cmDirect.t)
                         /\ Le(cmDirect.t, hi)
                         /\ cmDirect.id = cmX.id

\* C30: the hit of the BVH leaf built from the single object x returns what one
\* direct call x.hit(r, t_min, t_max) returns: a hit exactly when that call
\* hits, and with the same t.
C30_LeafHitEqualsDirectHit ==
    cmPc = "leaf" =>
        /\ cmLeaf.some = cmDirect.some
        /\ cmLeaf.some => cmLeaf.t = cmDirect.t

\* C28: the construction of a BVH ends, by returning a BvhNode or by a panic,
\* for every list: the stack is never exhausted, and every call split_volumes
\* makes on itself is on a slice strictly shorter than its own.
C28_RecursionOnShorterList ==
    /\ svPc # "overflow"
    /\ \A i \in 2..Len(svStack) :
          Len(svStack[i].objects) < Len(svStack[i - 1].objects)

\* the lower corner of an object's box on an axis, as box_compare reads it
MinOn(obj, axis) == BoundingBox(obj, 0, 0).box.min[axis]

\* the objects of a slice
Slice(objects) == {objects[i] : i \in 1..Len(objects)}

RECURSIVE LeafCount(_, _)
\* the number of leaf nodes (nodes whose children are not BvhNodes) at or
\* below node that hold obj as a child
LeafCount(node, obj) ==
    IF node.left.kind = "bvh"
    THEN LeafCount(node.left, obj) + LeafCount(node.right, obj)
    ELSE IF obj \in {node.left, node.right} THEN 1 ELSE 0

\* the first floor(n/2) objects of a slice have their lower corners on the
\* axis at or below those of the others
SplitAtMedian(objects, axis) ==
    LET n == Len(objects)
        mid == n \div 2
    IN \A i \in 1..mid : \A j \in (mid + 1)..n :
          MinOn(objects[i], axis) <= MinOn(objects[j], axis)

\* C29: the construction over n >= 1 objects puts every object in exactly one
\* leaf and drops none. A slice of one object becomes a leaf with the object as
\* both children; a slice of two a leaf with one object in each child, the left
\* one's lower corner on the axis drawn not above the right one's; a slice of
\* n >= 3 is sorted on the axis drawn and split into its first floor(n/2)
\* objects, which become the left subtree, and the other n - floor(n/2), which
\* become the right subtree, every lower corner on the left being at or below
\* every lower corner on the right on that axis.
C29_EveryPrimitiveInOneLeaf ==
    /\ \A k \in 1..Len(svStack) :
          LET f == svStack[k]
              n == Len(f.objects)
              mid == n \div 2
          IN (f.at \in {"left", "right"} /\ n >= 1) =>
                /\ n >= 3
                /\ SplitAtMedian(f.objects, f.axis)
                /\ k < Len(svStack) =>
                      LET part == IF f.at = "left" THEN SubSeq(f.objects, 1, mid)
                                  ELSE SubSeq(f.objects, mid + 1, n)
                      IN /\ Slice(svStack[k + 1].objects) = Slice(part)
                         /\ Len(svStack[k + 1].objects) = Len(part)
                /\ f.at = "right" =>
                      /\ Primitives(f.left) = Slice(SubSeq(f.objects, 1, mid))
                      /\ Cardinality(Primitives(f.left)) = mid
    /\ svRet.some =>
          LET node == svRet.node
              n == Len(svRet.objects)
              mid == n \div 2
          IN /\ Primitives(node) = Slice(svRet.objects)
             /\ Cardinality(Primitives(node)) = n
             /\ \A obj \in Slice(svRet.objects) : LeafCount(node, obj) = 1
             /\ n = 1 => node.left = svRet.objects[1] /\ node.right = svRet.objects[1]
             /\ n = 2 =>
                   /\ node.left # node.right
                   /\ {node.left, node.right} = Slice(svRet.objects)
                   /\ MinOn(node.left, svRet.axis) <= MinOn(node.right, svRet.axis)
             /\ n >= 3 =>
                   /\ Primitives(node.left) = Slice(SubSeq(svRet.objects, 1, mid))
                   /\ Primitives(node.right) = Slice(SubSeq(svRet.objects, mid + 1, n))
                   /\ Cardinality(Primitives(node.left)) = mid
                   /\ Cardinality(Primitives(node.right)) = n - mid
                   /\ SplitAtMedian(svRet.objects, svRet.axis)

\* the BVH of three objects is back: a leaf of one object on the left, a
\* leaf of the two others on the right
C29_Witness ==
    /\ svPc = "returned"
    /\ Len(svRet.objects) = 3
    /\ svRet.node.left.left = svRet.node.left.right
    /\ svRet.node.right.left # svRet.node.right.right
    /\ \E axis \in Axes :
          MinOn(svRet.objects[1], axis) < MinOn(svRet.objects[3], axis)

====
